---- MODULE Spec2Model ----
(***************************************************************************)
(* A model of factory/builder.py and factory/declarations.py: the          *)
(* DeclarationSet (flat fields plus per-field deep context), the routing   *)
(* of call-time overrides into pre/post sets, the StepBuilder/BuildStep    *)
(* sequence choice, the lazy Resolver with its pending stack, and the      *)
(* post-generation extraction.                                             *)
(*                                                                         *)
(* Keys are sequences of one-character strings, so that split/join work on *)
(* the text of a key as str.split('__', 1) and '__'.join do.               *)
(* Python dicts that are shared between objects (the inner deep-context    *)
(* dicts) live in `heap` and are referred to by their index.               *)
(***************************************************************************)
EXTENDS Integers, Sequences, FiniteSets, TLC

VARIABLES
    heap,        \* the inner context dicts: heap[i] is a map sub-key -> value
    s, c,        \* two DeclarationSet objects (SpecDS)
    postCounter, \* PostGenerationDeclaration.creation_counter (class attribute)
    last,        \* the last operation: its name, target, argument and outcome
    nops,        \* number of operations performed (bounded)
    base_pre,    \* factory_meta.pre_declarations
    base_post,   \* factory_meta.post_declarations
    seqCounter,  \* the factory's sequence counter behind next_sequence()
    steps,       \* the builds in progress, outermost first: StepBuilder,
                 \* BuildStep and Resolver of each
    frames,      \* the evaluate() calls in progress, outermost first
    ctl,         \* normal execution, or an exception on its way up
    hist,        \* what the finished and running build calls did
    baseCounter, \* BaseDeclaration.creation_counter (class attribute)
    threads,     \* the threads that construct declarations: where each is
                 \* in __init__, and the counter value it loaded
    made,        \* the declarations constructed so far (SpecCC)
    locked       \* whether the callers serialize their constructions

dsVars == <<s, c, last, nops>>
buildVars == <<base_pre, base_post, seqCounter, steps, frames, ctl, hist>>
ccVars == <<baseCounter, threads, made, locked>>
vars == <<heap, postCounter, dsVars, buildVars, ccVars>>

\* Number of threads that construct declarations
NThreads == 2

Threads == 1 .. NThreads

\* A thread outside of a constructor
IdleThread == [pc |-> "idle", family |-> "none", loaded |-> 0]

\* The construction variables while no declaration is constructed
CCIdle ==
    /\ baseCounter = 0
    /\ threads = [t \in Threads |-> IdleThread]
    /\ made = <<>>
    /\ locked = FALSE

----------------------------------------------------------------------------
(* Bounds *)

\* Number of DeclarationSet operations in one run of SpecDS
MaxOps == 3

----------------------------------------------------------------------------
(* Keys and values *)

\* DeclarationSet.SPLITTER
SPLITTER == <<"_", "_">>

Min(S) == CHOOSE x \in S : \A y \in S : x <= y

\* The element of a one-element set. Only({F(r) : r \in {e}}) is F(e) with e
\* evaluated once, which is how the intermediate results of a computation
\* are named below.
Only(S) == CHOOSE x \in S : TRUE

\* str.__contains__ / str.split(SPLITTER, 1): position of the first occurrence
\* of the separator in entry, 0 when there is none.
FirstSplitter(entry) ==
    LET hits == {i \in 1..(Len(entry) - 1) : entry[i] = "_" /\ entry[i + 1] = "_"}
    IN IF hits = {} THEN 0 ELSE Min(hits)

Max(S) == CHOOSE x \in S : \A y \in S : x >= y

\* A split on the last occurrence of the separator (str.rsplit)
SplitAtLast(entry) ==
    LET hits == {i \in 1..(Len(entry) - 1) : entry[i] = "_" /\ entry[i + 1] = "_"}
    IN IF hits = {}
       THEN [root |-> entry, sub |-> <<>>, deep |-> FALSE]
       ELSE [root |-> SubSeq(entry, 1, Max(hits) - 1),
             sub |-> SubSeq(entry, Max(hits) + 2, Len(entry)),
             deep |-> TRUE]

\* DeclarationSet.split: (root, sub), sub is None (deep = FALSE) without separator
split(entry) ==
    LET i == FirstSplitter(entry)
    IN IF i = 0
       THEN [root |-> entry, sub |-> <<>>, deep |-> FALSE]
       ELSE [root |-> SubSeq(entry, 1, i - 1),
             sub |-> SubSeq(entry, i + 2, Len(entry)),
             deep |-> TRUE]

\* DeclarationSet.join
join(root, subkey) == root \o SPLITTER \o subkey

\* The keys used as field names and override keys
kc == <<"c">>
kp == <<"p">>
kq == <<"q">>
kr == <<"r">>
kz == <<"z">>
kx == <<"x">>
ka__x == <<"a", "_", "_", "x">>
kp__x == <<"p", "_", "_", "x">>
kr__x == <<"r", "_", "_", "x">>
kz__x == <<"z", "_", "_", "x">>
ka == <<"a">>
kb == <<"b">>
ka__b == <<"a", "_", "_", "b">>
kempty == <<>>
ka_ == <<"a", "_">>
kb__a == <<"b", "_", "_", "a">>
ka__b__a == <<"a", "_", "_", "b", "_", "_", "a">>
ka___b == <<"a", "_", "_", "_", "b">>
k__a == <<"_", "_", "a">>
ka__ == <<"a", "_", "_">>

\* Values are records of one shape: t is the kind, id tells objects of a kind
\* apart, cc is the instance's creation_counter, deps the fields a
\* declaration reads, dflt whether a default was configured, args the ids of
\* the values a computed value was made from.
Val(t, id, cc, deps, dflt, args) ==
    [t |-> t, id |-> id, cc |-> cc, deps |-> deps, dflt |-> dflt, args |-> args]

\* A plain literal value
Lit(n) == Val("lit", n, 0, <<>>, FALSE, <<>>)

\* A PostGenerationDeclaration instance: __init__ stored the class counter in
\* the instance attribute creation_counter.
PostDecl(id, cc) == Val("post", id, cc, <<>>, FALSE, <<>>)

\* A FakePostGenerationDeclaration instance: its __init__ does not call the
\* parent __init__, so the instance has no creation_counter of its own.
FakeDecl(id) == Val("fake", id, 0, <<>>, FALSE, <<>>)

\* RelatedFactory(factory, factory_related_name, **defaults)
RelatedFactory(id, cc, factory, name, defaults) ==
    Val("related", id, cc, <<>>, FALSE, <<>>)
        @@ [factory |-> factory, name |-> name, defaults |-> defaults]

\* PostGenerationMethodCall(method_name, *args, **kwargs)
PostGenerationMethodCall(id, cc, args, kwargs) ==
    Val("method", id, cc, <<>>, FALSE, <<>>)
        @@ [method_args |-> args, method_kwargs |-> kwargs]

\* A tuple of plain values
Tuple(ids) == Val("tuple", 0, 0, <<>>, FALSE, ids)

\* isinstance(v, declarations.PostGenerationDeclaration)
IsPost(v) == v.t \in {"post", "fake", "related", "method"}

\* obj.creation_counter: the instance attribute when __init__ set one, else the
\* class attribute as it is at the time of the read (classCounter is the
\* counter of the object's family).
CreationCounter(v, classCounter) ==
    IF v.t \in {"fake", "maybe"} THEN classCounter ELSE v.cc

----------------------------------------------------------------------------
(* DeclarationSet *)

EmptyDict == <<>>

\* DeclarationSet.__init__ before its update(): no declarations, no contexts.
\* order is the insertion order of the declarations dict.
NewSet == [order |-> <<>>, decl |-> EmptyDict, ctx |-> EmptyDict]

\* self.declarations[root] = v
SetDecl(S, k, v) ==
    [S EXCEPT !.order = IF k \in DOMAIN S.decl THEN @ ELSE Append(@, k),
              !.decl = (k :> v) @@ @]

\* self.contexts[root][sub] = v, on a defaultdict(dict): a missing root gets a
\* new inner dict, an existing root's inner dict is written in place.
SetCtx(S, H, root, sub, v) ==
    IF root \in DOMAIN S.ctx
    THEN [set |-> S,
          heap |-> [H EXCEPT ![S.ctx[root]] = (sub :> v) @@ @]]
    ELSE [set |-> [S EXCEPT !.ctx = (root :> (Len(H) + 1)) @@ @],
          heap |-> Append(H, (sub :> v))]

\* The body of the loop of update for one (key, value) item
ApplyKey(S, H, k, v) ==
    Only({IF sp.deep
          THEN SetCtx(S, H, sp.root, sp.sub, v)
          ELSE [set |-> SetDecl(S, sp.root, v), heap |-> H] : sp \in {split(k)}})

\* The loop of update: the keys of values, in iteration order.
RECURSIVE ApplyKeys(_, _, _)
ApplyKeys(S, H, kvs) ==
    IF kvs = <<>> THEN [set |-> S, heap |-> H]
    ELSE Only({ApplyKeys(r.set, r.heap, Tail(kvs)) :
                  r \in {ApplyKey(S, H, kvs[1][1], kvs[1][2])}})

\* set(self.contexts) - set(self.declarations)
ExtraContextKeys(S) == DOMAIN S.ctx \ DOMAIN S.decl

NoError == [type |-> "none", keys |-> {}, known |-> {}]

\* No DeclarationSet operation was made yet
NoCall == [op |-> "none", target |-> "none", arg |-> <<>>, err |-> NoError]

\* The InvalidDeclarationError of update: the offending deep keys and the
\* known field names.
DeepContextError(S, H) ==
    [type |-> "InvalidDeclarationError",
     keys |-> UNION {{join(root, sub) : sub \in DOMAIN H[S.ctx[root]]} :
                         root \in ExtraContextKeys(S)},
     known |-> DOMAIN S.decl]

\* A variant of update that checks the deep-context roots after every key.
RECURSIVE ApplyKeysCheckingEach(_, _, _)
ApplyKeysCheckingEach(S, H, kvs) ==
    IF kvs = <<>> THEN [set |-> S, heap |-> H, err |-> NoError]
    ELSE Only({IF ExtraContextKeys(r.set) # {}
               THEN [set |-> r.set, heap |-> r.heap,
                     err |-> DeepContextError(r.set, r.heap)]
               ELSE ApplyKeysCheckingEach(r.set, r.heap, Tail(kvs)) :
                  r \in {ApplyKey(S, H, kvs[1][1], kvs[1][2])}})

UpdatePerKeyCheck(S, H, kvs) == ApplyKeysCheckingEach(S, H, kvs)

\* A variant of update that restores the set when it raises.
UpdateRolledBack(S, H, kvs) ==
    Only({IF ExtraContextKeys(r.set) # {}
          THEN [set |-> S, heap |-> H, err |-> DeepContextError(r.set, r.heap)]
          ELSE [set |-> r.set, heap |-> r.heap, err |-> NoError] :
             r \in {ApplyKeys(S, H, kvs)}})

\* DeclarationSet.update(values): apply every key, then check once. The set
\* keeps what was applied also when the error is raised.
update(S, H, kvs) ==
    Only({[set |-> r.set, heap |-> r.heap,
           err |-> IF ExtraContextKeys(r.set) # {}
                   THEN DeepContextError(r.set, r.heap)
                   ELSE NoError] : r \in {ApplyKeys(S, H, kvs)}})

\* DeclarationSet.__init__(initial): empty dicts, then update(initial or {})
DeclarationSet(H, initial) == update(NewSet, H, initial)

\* DeclarationSet.copy: a new set object with a copy of the declarations dict
\* and a copy of the contexts dict; dict.copy() is shallow, so the copy's
\* contexts refer to the same inner dicts as the original's.
copy(S) == [order |-> S.order, decl |-> S.decl, ctx |-> S.ctx]

\* DeclarationSet.__contains__
Contains(S, key) == key \in DOMAIN S.decl

\* DeclarationSet.filter, on the keys of a mapping
filter(S, entries) == {e \in entries : split(e).root \in DOMAIN S.decl}

\* The KeyError of self.declarations[key] for a key that is not a field
KeyError(key) == [type |-> "KeyError", keys |-> {key}, known |-> {}]

\* A variant of __getitem__ that reads self.contexts[key] before
\* self.declarations[key].
GetItemContextFirst(S, H, key) ==
    IF key \in DOMAIN S.ctx
    THEN [set |-> S, heap |-> H, ctxid |-> S.ctx[key],
          err |-> IF key \in DOMAIN S.decl THEN NoError ELSE KeyError(key)]
    ELSE [set |-> [S EXCEPT !.ctx = (key :> (Len(H) + 1)) @@ @],
          heap |-> Append(H, EmptyDict),
          ctxid |-> Len(H) + 1,
          err |-> IF key \in DOMAIN S.decl THEN NoError ELSE KeyError(key)]

\* DeclarationSet.__getitem__: the arguments of DeclarationContext are
\* evaluated in order, so self.declarations[key] raises KeyError for a key
\* that is not a field before self.contexts[key] is read; for a field,
\* self.contexts[key] on the defaultdict creates an empty inner dict when the
\* key has none.
getitem(S, H, key) ==
    IF key \notin DOMAIN S.decl
    THEN [set |-> S, heap |-> H, ctxid |-> 0, err |-> KeyError(key)]
    ELSE IF key \in DOMAIN S.ctx
    THEN [set |-> S, heap |-> H, ctxid |-> S.ctx[key], err |-> NoError]
    ELSE [set |-> [S EXCEPT !.ctx = (key :> (Len(H) + 1)) @@ @],
          heap |-> Append(H, EmptyDict),
          ctxid |-> Len(H) + 1,
          err |-> NoError]

\* The loop of DeclarationSet.values: self[name] for every field, in the
\* iteration order of the declarations. _items (as_dict) reads
\* self.contexts[name] for the same names and leaves the same set behind.
RECURSIVE GetItems(_, _, _)
GetItems(S, H, names) ==
    IF names = <<>> THEN [set |-> S, heap |-> H]
    ELSE Only({GetItems(g.set, g.heap, Tail(names)) :
                  g \in {getitem(S, H, names[1])}})

\* DeclarationSet.values
values(S, H) == GetItems(S, H, S.order)

\* The deep context of a field as _items reads it
ContextOf(S, H, name) ==
    IF name \in DOMAIN S.ctx THEN H[S.ctx[name]] ELSE EmptyDict

\* DeclarationSet._items, as the set of its (key, value) pairs
Items(S, H) ==
    {<<n, S.decl[n]>> : n \in DOMAIN S.decl}
    \cup UNION {{<<join(n, sub), ContextOf(S, H, n)[sub]>> :
                    sub \in DOMAIN ContextOf(S, H, n)} : n \in DOMAIN S.decl}

\* DeclarationSet.as_dict: dict(self._items())
as_dict(S, H) ==
    LET items == Items(S, H)
    IN [k \in {p[1] : p \in items} |-> (CHOOSE p \in items : p[1] = k)[2]]

\* sorted(iterable, key): insertion of x after every element whose key is not
\* greater (Python's sort is stable). key maps each element to its sort key.
RECURSIVE InsertStable(_, _, _)
InsertStable(done, x, key) ==
    IF done = <<>> THEN <<x>>
    ELSE IF key[x] < key[done[1]]
         THEN <<x>> \o done
         ELSE <<done[1]>> \o InsertStable(Tail(done), x, key)

RECURSIVE StableSort(_, _)
StableSort(seq, key) ==
    IF seq = <<>> THEN <<>>
    ELSE Only({InsertStable(done, seq[Len(seq)], key) :
                  done \in {StableSort(SubSeq(seq, 1, Len(seq) - 1), key)}})

\* A variant of sorted that gives the names in insertion order
SortedByInsertion(S, classCounter) == [err |-> "none", names |-> S.order]

\* DeclarationSet.sorted: the field names by creation_counter of their values.
\* A value without that attribute (a plain literal) raises AttributeError.
sorted(S, classCounter) ==
    IF \E n \in DOMAIN S.decl : S.decl[n].t = "lit"
    THEN [err |-> "AttributeError", names |-> <<>>]
    ELSE Only({[err |-> "none", names |-> StableSort(S.order, key)] :
                  key \in {[n \in DOMAIN S.decl |->
                               CreationCounter(S.decl[n], classCounter)]}})

----------------------------------------------------------------------------
(* Override routing: parse_declarations *)

\* The keys of a mapping given as the sequence of its items
KeysOf(kvs) == {kvs[i][1] : i \in DOMAIN kvs}

\* values[k]
ValueInSeq(kvs, k) == kvs[CHOOSE i \in DOMAIN kvs : kvs[i][1] = k][2]

DistinctKeys(kvs) == \A i, j \in DOMAIN kvs : kvs[i][1] = kvs[j][1] => i = j

\* An error of a build call: its type, the field it names, the pending stack
\* it reports, and the DeclarationSet error it carries (if any).
BuildError(type, name, stack, cause) ==
    [type |-> type, name |-> name, stack |-> stack, cause |-> cause]

NoBuildError == BuildError("none", <<>>, <<>>, NoError)

\* filter of a sequence, keeping the order (a dict comprehension over items())
RECURSIVE Select(_, _)
Select(kvs, keep) ==
    IF kvs = <<>> THEN <<>>
    ELSE IF kvs[1][1] \in keep
         THEN <<kvs[1]>> \o Select(Tail(kvs), keep)
         ELSE Select(Tail(kvs), keep)

\* A routing that hands the post-field overrides to the post set under their
\* own keys
ReaddressNot(kvs) == kvs

\* {join(split(k)[0], k): v for k, v in extra_maybenonpost.items() if k in post_overrides}
Readdress(kvs) ==
    [i \in DOMAIN kvs |-> <<join(split(kvs[i][1]).root, kvs[i][1]), kvs[i][2]>>]

ParseResult(err, pre, post, H) ==
    [err |-> err, pre |-> pre, post |-> post, heap |-> H]

\* A first loop without the shadowing test
ShadowingIgnored(decls, pre) == {}

\* The first loop of parse_declarations: the first key, in iteration order,
\* whose value is a post-declaration and which names a pre-declaration.
ShadowingEntries(decls, pre) ==
    {i \in DOMAIN decls : IsPost(decls[i][2]) /\ Contains(pre, decls[i][1])}

\* extra_post and extra_maybenonpost, in the iteration order of decls
ExtraPost(decls) ==
    Select(decls, {k \in KeysOf(decls) : IsPost(ValueInSeq(decls, k))})

ExtraMaybeNonPost(decls) ==
    Select(decls, {k \in KeysOf(decls) : ~IsPost(ValueInSeq(decls, k))})

ParseFailed(cause, pre, post, H) ==
    ParseResult(BuildError("InvalidDeclarationError", <<>>, <<>>, cause), pre, post, H)

\* The end of parse_declarations: pre_declarations.update(the other keys),
\* r2 being the post set and the heap after the two updates of the post set.
ParsePre(maybe, post_overrides, pre0, r2) ==
    Only({IF r3.err # NoError
          THEN ParseFailed(r3.err, r3.set, r2.set, r3.heap)
          ELSE ParseResult(NoBuildError, r3.set, r2.set, r3.heap) :
             r3 \in {update(pre0, r2.heap,
                            Select(maybe, KeysOf(maybe) \ post_overrides))}})

\* post_overrides = post_declarations.filter(extra_maybenonpost) and the
\* update of the post set with the re-addressed keys, r1 being the post set
\* and the heap after post_declarations.update(extra_post).
ParseContext(maybe, post_overrides, pre0, r1) ==
    Only({IF r2.err # NoError
          THEN ParseFailed(r2.err, pre0, r2.set, r2.heap)
          ELSE ParsePre(maybe, post_overrides, pre0, r2) :
             r2 \in {update(r1.set, r1.heap,
                            Readdress(Select(maybe, post_overrides)))}})

\* parse_declarations after its first loop found no shadowing
ParsePost(decls, pre0, post0, H) ==
    Only({IF r1.err # NoError
          THEN ParseFailed(r1.err, pre0, r1.set, r1.heap)
          ELSE Only({ParseContext(maybe, filter(r1.set, KeysOf(maybe)), pre0, r1) :
                        maybe \in {ExtraMaybeNonPost(decls)}}) :
             r1 \in {update(post0, H, ExtraPost(decls))}})

\* parse_declarations(decls, base_pre, base_post). The base sets are passed as
\* they are; an absent base is the empty set DeclarationSet() gives.
parse_declarations(decls, bpre, bpost, H) ==
    Only({IF shadow # {}
          THEN \* the message formats pre_declarations[k]
               ParseResult(BuildError("InvalidDeclarationError",
                                      decls[Min(shadow)][1], <<>>, NoError),
                           copy(bpre), copy(bpost),
                           getitem(copy(bpre), H, decls[Min(shadow)][1]).heap)
          ELSE ParsePost(decls, copy(bpre), copy(bpost), H) :
             shadow \in {ShadowingEntries(decls, copy(bpre))}})

----------------------------------------------------------------------------
(* Declarations evaluated by the Resolver *)

\* LazyAttribute(function): the function reads the fields deps of the
\* Resolver it is given, in that order, and computes a value from them.
LazyAttribute(id, cc, deps) == Val("lazy", id, cc, deps, FALSE, <<>>)

\* SelfAttribute(attribute_name[, default]) without leading dots
SelfAttribute(id, cc, name, dflt) == Val("self", id, cc, <<name>>, dflt, <<>>)

\* The default given to the SelfAttribute declarations that have one
DefaultValue == Val("default", 0, 0, <<>>, FALSE, <<>>)

\* None
NoneVal == Val("none", 0, 0, <<>>, FALSE, <<>>)

\* isinstance(value, declarations.BaseDeclaration)
IsBaseDeclaration(v) == v.t \in {"lazy", "self", "container", "sub", "maybe"}

\* SelfAttribute('..name'): depth is the number of leading dots of the name
ParentAttribute(id, cc, depth, name, dflt) ==
    Val("self", id, cc, <<name>>, dflt, <<>>) @@ [depth |-> depth]

\* self.depth of a SelfAttribute
Depth(decl) == IF "depth" \in DOMAIN decl THEN decl.depth ELSE 0

\* ContainerAttribute(function, strict): the function reads the fields deps
\* on the nearest container, chain[0]
ContainerAttribute(id, cc, strict, deps) ==
    Val("container", id, cc, deps, FALSE, <<>>) @@ [strict |-> strict]

\* SubFactory(factory, **defaults); FORCE_SEQUENCE is False
SubFactory(id, cc, factory, defaults) ==
    Val("sub", id, cc, <<>>, FALSE, <<>>)
        @@ [factory |-> factory, defaults |-> defaults, FORCE_SEQUENCE |-> FALSE]

\* Dict(params): a SubFactory of the dict factory with FORCE_SEQUENCE True
Dict(id, cc, params) ==
    [SubFactory(id, cc, "DictFactory", params) EXCEPT !.FORCE_SEQUENCE = TRUE]

\* str(i) for the indexes of a List
IndexKey(i) == <<CASE i = 0 -> "0" [] i = 1 -> "1" [] OTHER -> "2">>

\* List(params): dict((str(i), v) for i, v in enumerate(params))
List(id, cc, params) ==
    [SubFactory(id, cc, "ListFactory",
                [i \in DOMAIN params |-> <<IndexKey(i - 1), params[i]>>])
     EXCEPT !.FORCE_SEQUENCE = TRUE]

\* Maybe(decider, yes_declaration, no_declaration): its __init__ does not
\* call the parent __init__
Maybe(id, decider, yes, no) ==
    Val("maybe", id, 0, <<decider>>, FALSE, <<>>) @@ [yes |-> yes, no |-> no]

\* Trait(**overrides).as_declarations(field_name, declarations): every
\* override becomes a Maybe decided by the trait's field; declarations.get
\* gives the "no" branch, None for a field the factory does not declare.
\* ids numbers the Maybe objects made.
as_declarations(overrides, field_name, declarations, ids) ==
    [i \in DOMAIN overrides |->
        <<overrides[i][1],
          Maybe(ids[i], field_name, overrides[i][2],
                IF overrides[i][1] \in KeysOf(declarations)
                THEN ValueInSeq(declarations, overrides[i][1])
                ELSE NoneVal)>>]

\* The result of instantiate for the build call number n
Instance(n) == Val("inst", n, 0, <<>>, FALSE, <<>>)

\* A test for None in place of the truth value
TruthyNotNone(v) == v.t # "none"

\* bool(v): None and 0 are false
Truthy(v) == ~(v.t = "none" \/ (v.t = "lit" /\ v.id = 0))

\* What the function of a LazyAttribute returns for the values it read
Computed(decl, acc) == Val("val", decl.id, 0, <<>>, FALSE, [i \in DOMAIN acc |-> acc[i].id])

Range(seq) == {seq[i] : i \in DOMAIN seq}

Front(seq) == SubSeq(seq, 1, Len(seq) - 1)

Restrict(f, S) == [k \in S |-> f[k]]

Last(seq) == seq[Len(seq)]

\* The elements of a set, one after the other
RECURSIVE SeqOfSet(_)
SeqOfSet(S) ==
    IF S = {} THEN <<>>
    ELSE Only({<<x>> \o SeqOfSet(S \ {x}) : x \in {CHOOSE y \in S : TRUE}})

\* d = dict(defaults); d.update(extra): the items of defaults with the values
\* of extra where it has the key, then the keys only extra has. (The inner
\* dicts of the model keep no insertion order: the keys only extra has come
\* in the order of SeqOfSet.)
Updated(defaults, extra) ==
    [i \in DOMAIN defaults |->
        IF defaults[i][1] \in DOMAIN extra
        THEN <<defaults[i][1], extra[defaults[i][1]]>>
        ELSE defaults[i]]
    \o [i \in DOMAIN SeqOfSet(DOMAIN extra \ KeysOf(defaults)) |->
          <<SeqOfSet(DOMAIN extra \ KeysOf(defaults))[i],
            extra[SeqOfSet(DOMAIN extra \ KeysOf(defaults))[i]]>>]

----------------------------------------------------------------------------
(* StepBuilder, BuildStep, Resolver *)

\* '__sequence'
kSEQ == <<"_", "_", "s", "e", "q", "u", "e", "n", "c", "e">>

\* A constructor that leaves the key in the overrides
PopSequenceKept(extras) ==
    [extras |-> extras,
     pin |-> IF kSEQ \in KeysOf(extras) THEN ValueInSeq(extras, kSEQ) ELSE NoneVal]

\* StepBuilder.__init__: extras.pop('__sequence', None)
PopSequence(extras) ==
    [extras |-> Select(extras, KeysOf(extras) \ {kSEQ}),
     pin |-> IF kSEQ \in KeysOf(extras) THEN ValueInSeq(extras, kSEQ) ELSE NoneVal]

\* factory_meta.next_sequence(): the factory's auto-incrementing counter
next_sequence(counter) == [value |-> Lit(counter), counter |-> counter + 1]

\* A choice that does not look at the pinned sequence
ChooseSequencePinIgnored(force, pin, counter) ==
    IF force # NoneVal
    THEN [sequence |-> force, counter |-> counter, called |-> FALSE]
    ELSE [sequence |-> next_sequence(counter).value,
          counter |-> next_sequence(counter).counter, called |-> pin = NoneVal]

\* A choice by truth value instead of "is not None": 0 counts as not given
ChooseSequenceByTruth(force, pin, counter) ==
    IF force # NoneVal /\ force.id # 0
    THEN [sequence |-> force, counter |-> counter, called |-> FALSE]
    ELSE IF pin # NoneVal /\ pin.id # 0
    THEN [sequence |-> pin, counter |-> counter, called |-> FALSE]
    ELSE [sequence |-> next_sequence(counter).value,
          counter |-> next_sequence(counter).counter, called |-> TRUE]

\* The sequence choice of StepBuilder.build
ChooseSequence(force, pin, counter) ==
    IF force # NoneVal
    THEN [sequence |-> force, counter |-> counter, called |-> FALSE]
    ELSE IF pin # NoneVal
    THEN [sequence |-> pin, counter |-> counter, called |-> FALSE]
    ELSE [sequence |-> next_sequence(counter).value,
          counter |-> next_sequence(counter).counter, called |-> TRUE]

Reverse(seq) == [i \in DOMAIN seq |-> seq[Len(seq) + 1 - i]]

\* A variant whose resolve walks the field names from the last to the first
NewStepReversed(extras, pin, force, parent, pre, post, sequence, called) ==
    [extras |-> extras, pin |-> pin, force |-> force, parent |-> parent,
     pre |-> pre, post |-> post, sequence |-> sequence, called |-> called,
     phase |-> "resolve", err |-> NoBuildError,
     values |-> EmptyDict, pending |-> <<>>, attributes |-> EmptyDict,
     todo |-> Reverse(pre.order),
     postTodo |-> <<>>, results |-> EmptyDict, hooks |-> <<>>,
     evals |-> [n \in DOMAIN pre.decl |-> 0],
     fails |-> [n \in DOMAIN pre.decl |-> 0],
     cyc |-> {},
     factory |-> "F", via |-> "root", field |-> <<>>, call |-> 0,
     log |-> <<>>, prepared |-> EmptyDict, instance |-> NoneVal,
     kids |-> <<>>, strategy |-> "build",
     initialized |-> TRUE, dict |-> EmptyDict]

\* One build call: the StepBuilder (extras, pin = force_init_sequence), the
\* arguments of build (force = force_sequence, parent = index of the parent
\* step, 0 for None), its locals (pre, post, postTodo, results), the BuildStep
\* (sequence, attributes) and the Resolver (values, pending). evals, fails
\* and hooks record the evaluate() calls made, those that raised, and the
\* post hooks called. factory names the factory_meta of the builder; via and
\* field tell who made the call: the user ("root"), the evaluate() of a field
\* of the parent step ("field") or a post hook of the parent step ("hook").
\* initialized is the Resolver's __initialized once its __init__ is done and
\* dict the attributes set on the Resolver object besides its private ones.
\* call numbers the build calls of a run. log lists what the call did, in
\* order; prepared is the argument of prepare_arguments, instance the result
\* of instantiate, kids the outcomes of the nested build calls it made.
NewStep(extras, pin, force, parent, pre, post, sequence, called) ==
    [extras |-> extras, pin |-> pin, force |-> force, parent |-> parent,
     pre |-> pre, post |-> post, sequence |-> sequence, called |-> called,
     phase |-> "resolve", err |-> NoBuildError,
     values |-> EmptyDict, pending |-> <<>>, attributes |-> EmptyDict,
     todo |-> pre.order,
     postTodo |-> <<>>, results |-> EmptyDict, hooks |-> <<>>,
     evals |-> [n \in DOMAIN pre.decl |-> 0],
     fails |-> [n \in DOMAIN pre.decl |-> 0],
     cyc |-> {},
     factory |-> "F", via |-> "root", field |-> <<>>, call |-> 0,
     log |-> <<>>, prepared |-> EmptyDict, instance |-> NoneVal,
     kids |-> <<>>, strategy |-> "build",
     initialized |-> TRUE, dict |-> EmptyDict]

NoStep == NewStep(<<>>, NoneVal, NoneVal, 0, NewSet, NewSet, NoneVal, FALSE)

GetAttrResult(kind, st, H, v, err) ==
    [kind |-> kind, st |-> st, heap |-> H, v |-> v, err |-> err]

\* The branches of Resolver.__getattr__ for a name that is neither pending
\* nor cached: a declared literal is cached and returned, a declared
\* declaration is pushed on the pending stack to be evaluated ("eval"), an
\* unknown name raises AttributeError.
GetAttrDeclared(st, H, name) ==
    IF Contains(st.pre, name)
    THEN LET g == getitem(st.pre, H, name)
             value == st.pre.decl[name]
         IN IF IsBaseDeclaration(value)
            THEN GetAttrResult("eval",
                               [st EXCEPT !.pre = g.set,
                                          !.pending = Append(@, name),
                                          !.evals[name] = @ + 1],
                               g.heap, value, NoBuildError)
            ELSE GetAttrResult("value",
                               [st EXCEPT !.pre = g.set,
                                          !.values = (name :> value) @@ @],
                               g.heap, value, NoBuildError)
    ELSE GetAttrResult("raise", st, H, NoneVal,
                       BuildError("AttributeError", name, <<>>, NoError))

\* The CyclicDefinitionError of Resolver.__getattr__; cyc records the pending
\* names that were asked for.
RaiseCyclic(st, H, name) ==
    GetAttrResult("raise", [st EXCEPT !.cyc = @ \cup {name}], H, NoneVal,
                  BuildError("CyclicDefinitionError", name, st.pending, NoError))

\* Resolver.__getattr__ without the test of the pending stack
GetAttrNoCycleCheck(st, H, name) ==
    IF name \in DOMAIN st.values
    THEN GetAttrResult("value", st, H, st.values[name], NoBuildError)
    ELSE GetAttrDeclared(st, H, name)

\* Resolver.__getattr__ without the lookup in the cache
GetAttrNoCache(st, H, name) ==
    IF name \in Range(st.pending)
    THEN RaiseCyclic(st, H, name)
    ELSE GetAttrDeclared(st, H, name)

\* Resolver.__getattr__(name), up to the call of evaluate
GetAttr(st, H, name) ==
    IF name \in Range(st.pending)
    THEN RaiseCyclic(st, H, name)
    ELSE IF name \in DOMAIN st.values
    THEN GetAttrResult("value", st, H, st.values[name], NoBuildError)
    ELSE GetAttrDeclared(st, H, name)

\* The AttributeError of Resolver.__setattr__
SettingError(name) ==
    BuildError("AttributeError", name, <<>>, NoError) @@ [setting |-> TRUE]

\* A __setattr__ that never refuses
SetattrAlways(st, name, value) ==
    [st |-> [st EXCEPT !.dict = (name :> value) @@ @], err |-> NoBuildError]

\* Resolver.__setattr__(name, value) on the Resolver of the step st: the
\* attribute is set while __init__ runs and refused afterwards
setattr(st, name, value) ==
    IF ~st.initialized
    THEN [st |-> [st EXCEPT !.dict = (name :> value) @@ @], err |-> NoBuildError]
    ELSE [st |-> st, err |-> SettingError(name)]

\* An evaluate() call in progress: the step whose Resolver runs it, the field,
\* its declaration, the next read to make and the values read so far. pulled
\* tells that the loop of BuildStep.resolve made the read that started it.
Frame(step, field, decl) ==
    [step |-> step, field |-> field, decl |-> decl, pos |-> 1, acc |-> <<>>,
     pulled |-> FALSE]

\* An entry of the log of a build call
Event(e, name) == [e |-> e, name |-> name]

\* isinstance(err, AttributeError): the errors of the errors module
\* (CyclicDefinitionError, InvalidDeclarationError) are fatal factory errors,
\* not AttributeErrors.
IsAttributeError(err) == err.type = "AttributeError"

\* deepgetattr's "except AttributeError" with a default configured, and the
\* getattr(instance, self.decider, None) of Maybe
Catches(decl, err) ==
    \/ decl.t = "self" /\ decl.dflt /\ IsAttributeError(err)
    \/ decl.t = "maybe" /\ IsAttributeError(err)

\* What the read gives when its AttributeError was caught
Caught(decl) == IF decl.t = "maybe" THEN NoneVal ELSE DefaultValue

\* A chain that holds the step's own stub at every index
ChainOfSelf(S, i, n) == i

\* step.chain[n] for the step at index i of steps: n parent_step links up
\* (0 when the chain is shorter)
RECURSIVE Chain(_, _, _)
Chain(S, i, n) ==
    IF i = 0 \/ n = 0 THEN i ELSE Chain(S, S[i].parent, n - 1)

\* Resolver.factory_parent of the stub of the step at index i: the stub of
\* its parent step (0 for None)
factory_parent(S, i) == IF S[i].parent # 0 THEN S[i].parent ELSE 0

\* The Resolver the reads of an evaluate() are made on. SelfAttribute: the
\* instance, or step.chain[depth - 1] when depth > 1 (IndexError when the
\* chain is shorter). ContainerAttribute: chain[0] of step.chain[1:]; strict
\* with an empty chain raises TypeError, and without containers a function
\* that reads them fails with IndexError.
ReadTarget(S, F) ==
    CASE F.decl.t = "self" /\ Depth(F.decl) > 1 ->
            IF Chain(S, F.step, Depth(F.decl) - 1) = 0
            THEN [step |-> 0, err |-> BuildError("IndexError", F.field, <<>>, NoError)]
            ELSE [step |-> Chain(S, F.step, Depth(F.decl) - 1), err |-> NoBuildError]
      [] F.decl.t = "container" ->
            IF S[F.step].parent = 0
            THEN [step |-> 0,
                  err |-> BuildError(IF F.decl.strict THEN "TypeError" ELSE "IndexError",
                                     F.field, <<>>, NoError)]
            ELSE [step |-> S[F.step].parent, err |-> NoBuildError]
      [] OTHER -> [step |-> F.step, err |-> NoBuildError]

\* utils.extract_dict(prefix, attrs): the entries whose key starts with
\* prefix + '__' are taken out of attrs, keyed by the rest of their key.
ExtractDict(prefix, attrs) ==
    LET pre == join(prefix, <<>>)
        hit == {k \in DOMAIN attrs :
                   Len(k) >= Len(pre) /\ SubSeq(k, 1, Len(pre)) = pre}
    IN [extracted |-> [n \in {SubSeq(k, Len(pre) + 1, Len(k)) : k \in hit} |->
                          attrs[pre \o n]],
        rest |-> Restrict(attrs, DOMAIN attrs \ hit)]

\* PostGenerationDeclaration.extract(name, attrs): attrs.pop(name), then
\* extract_dict; attrs is the inner dict heap[ctxid], changed in place.
extract(name, ctxid, H) ==
    LET attrs == H[ctxid]
        did == name \in DOMAIN attrs
        popped == Restrict(attrs, DOMAIN attrs \ {name})
        ed == ExtractDict(name, popped)
    IN [value |-> IF did THEN attrs[name] ELSE NoneVal,
        did_extract |-> did,
        extra |-> ed.extracted,
        for_field |-> name,
        heap |-> [H EXCEPT ![ctxid] = ed.rest]]

\* declaration.call(instance, step, context): a PostGeneration hook returns
\* what its function returns, a FakePostGenerationDeclaration its value.
CallHook(decl, context) ==
    IF decl.t = "fake" THEN Lit(decl.id)
    ELSE Val("ret", decl.id, 0, <<>>, FALSE, <<>>)

\* tuple(value): the items of an iterable; TypeError for a value that is not
\* iterable
tuple(v) ==
    IF v.t = "tuple"
    THEN [err |-> NoBuildError, args |-> [i \in DOMAIN v.args |-> Lit(v.args[i])]]
    ELSE [err |-> BuildError("TypeError", <<>>, <<>>, NoError), args |-> <<>>]

\* A variant that passes a supplied value whole whatever the static arguments
PassedArgsSingle(decl, context) ==
    IF ~context.did_extract
    THEN [err |-> NoBuildError, args |-> decl.method_args]
    ELSE [err |-> NoBuildError, args |-> <<context.value>>]

\* passed_args of PostGenerationMethodCall.call
PassedArgs(decl, context) ==
    IF ~context.did_extract
    THEN [err |-> NoBuildError, args |-> decl.method_args]
    ELSE IF Len(decl.method_args) <= 1
    THEN [err |-> NoBuildError, args |-> <<context.value>>]
    ELSE tuple(context.value)

\* passed_kwargs of PostGenerationMethodCall.call
PassedKwargs(decl, context) == Updated(decl.method_kwargs, context.extra)

\* d[k] = v on the items of a dict
SetItem(kvs, k, v) ==
    IF k \in KeysOf(kvs)
    THEN [i \in DOMAIN kvs |-> IF kvs[i][1] = k THEN <<k, v>> ELSE kvs[i]]
    ELSE Append(kvs, <<k, v>>)

\* A variant where the keyword extras cannot replace the back-reference
RelatedKwargsExtrasLast(decl, context, instance) ==
    IF decl.name # <<>>
    THEN Updated(SetItem(decl.defaults, decl.name, instance), context.extra)
    ELSE Updated(decl.defaults, context.extra)

\* passed_kwargs of RelatedFactory.call
RelatedKwargs(decl, context, instance) ==
    IF decl.name # <<>>
    THEN SetItem(Updated(decl.defaults, context.extra), decl.name, instance)
    ELSE Updated(decl.defaults, context.extra)

----------------------------------------------------------------------------
(* The build call, step by step *)

\* Number of build calls in one run
MaxBuilds == 1

Running == ctl.mode = "run"

Top == steps[Len(steps)]

\* hist: the flattened base sets as they were when the factory was defined,
\* the number of build calls and of next_sequence() calls, and the last build
\* call that ended (returned or raised), with the overrides it was given.
\* ncalls counts the build calls, nested ones included; collCalls the
\* next_sequence() calls made on a collection factory; freeMax is the
\* greatest sequence a build with neither a forced nor a pinned sequence was
\* given so far (-1: none yet); cls names the factory class of the run and
\* strategy the strategy its root StepBuilder objects are made with; sets
\* counts the attempts to set an attribute on a Resolver.
NewHist(bpre, bpost, H) ==
    [base0pre |-> as_dict(bpre, H), base0post |-> as_dict(bpost, H),
     nbuilds |-> 0, seqCalls |-> 0, last |-> NoStep, raw |-> <<>>,
     ncalls |-> 0, collCalls |-> 0, freeMax |-> -1, cls |-> "none",
     strategy |-> "build", sets |-> 0]

\* StepBuilder(factory_meta, extras, strategy).build(force_sequence=force), up
\* to the first field pull of BuildStep.resolve: __sequence is popped, the
\* overrides are parsed against the base sets, the sequence is chosen, the
\* BuildStep and its Resolver are created. An error of the parsing ends the
\* call.
StartBuild(rawExtras, force) ==
    /\ steps = <<>>
    /\ DistinctKeys(rawExtras)
    /\ \E sb \in {PopSequence(rawExtras)} :
       \E pr \in {parse_declarations(sb.extras, base_pre, base_post, heap)} :
       \E sq \in {ChooseSequence(force, sb.pin, seqCounter)} :
       \E st \in {[NewStep(sb.extras, sb.pin, force, 0, pr.pre, pr.post,
                           sq.sequence, sq.called)
                   EXCEPT !.call = hist.ncalls + 1,
                          !.strategy = hist.strategy]} :
          /\ heap' = pr.heap
          /\ IF pr.err # NoBuildError
             THEN /\ steps' = <<>>
                  /\ seqCounter' = seqCounter
                  /\ hist' = [hist EXCEPT
                        !.nbuilds = @ + 1,
                        !.ncalls = @ + 1,
                        !.raw = rawExtras,
                        !.last = [NewStep(sb.extras, sb.pin, force, 0, NewSet, NewSet,
                                          NoneVal, FALSE)
                                  EXCEPT !.phase = "failed", !.err = pr.err,
                                         !.call = hist.ncalls + 1,
                                         !.strategy = hist.strategy]]
             ELSE /\ steps' = <<st>>
                  /\ seqCounter' = sq.counter
                  /\ hist' = [hist EXCEPT
                        !.nbuilds = @ + 1,
                        !.ncalls = @ + 1,
                        !.raw = rawExtras,
                        !.seqCalls = IF sq.called THEN @ + 1 ELSE @,
                        !.freeMax = IF sq.called THEN Max({@, sq.sequence.id}) ELSE @,
                        !.last = NoStep]
    /\ UNCHANGED <<base_pre, base_post, frames, ctl, postCounter, dsVars, ccVars>>

\* The exception leaves build: the step and its Resolver are dropped.
FailBuild(st, err) ==
    /\ steps' = Front(steps)
    /\ frames' = <<>>
    /\ ctl' = [mode |-> "run", err |-> NoBuildError]
    /\ hist' = [hist EXCEPT !.last = [st EXCEPT !.phase = "failed", !.err = err]]

\* The exception leaves a nested build call: it goes on in the caller, the
\* evaluate() or the post hook of the parent step that called step.recurse.
FailNested(st, err, fr) ==
    /\ steps' = [Front(steps) EXCEPT ![st.parent].kids =
                    Append(@, [st EXCEPT !.phase = "failed", !.err = err])]
    /\ frames' = fr
    /\ ctl' = [mode |-> "raise", err |-> err]
    /\ hist' = hist

\* The exception leaves the build call of the innermost step
FailStep(st, err, fr) ==
    IF st.via = "root" THEN FailBuild(st, err) ELSE FailNested(st, err, fr)

\* The declarations and the sequence counter of a factory: the factory under
\* test, or a collection factory, which declares nothing.
BasePre(fac) == IF fac = "F" THEN base_pre ELSE NewSet

BasePost(fac) == IF fac = "F" THEN base_post ELSE NewSet

SequenceCounter(fac) == IF fac = "F" THEN seqCounter ELSE hist.collCalls

\* A variant whose StepBuilder.recurse makes the builder with the default
\* strategy
RecurseDefaultStrategy(parent, fac, declarations, force, via, field, H) ==
    Only({Only({Only({
        [err |-> pr.err, heap |-> pr.heap, sq |-> sq,
         step |-> IF pr.err # NoBuildError
                  THEN [NewStep(sb.extras, sb.pin, force, parent, NewSet, NewSet,
                                NoneVal, FALSE)
                        EXCEPT !.phase = "failed", !.err = pr.err,
                               !.factory = fac, !.via = via, !.field = field,
                               !.call = hist.ncalls + 1,
                               !.strategy = "build"]
                  ELSE [NewStep(sb.extras, sb.pin, force, parent, pr.pre, pr.post,
                                sq.sequence, sq.called)
                        EXCEPT !.factory = fac, !.via = via, !.field = field,
                               !.call = hist.ncalls + 1,
                               !.strategy = "build"]] :
            sq \in {ChooseSequence(force, sb.pin, SequenceCounter(fac))}}) :
            pr \in {parse_declarations(sb.extras, BasePre(fac), BasePost(fac), H)}}) :
            sb \in {PopSequence(declarations)}})

\* step.recurse(factory, declarations, force_sequence), up to the first field
\* pull of the nested build: builder.recurse makes a StepBuilder (__sequence
\* is popped), build(parent_step=step, force_sequence) parses the overrides
\* against the base sets of the factory and chooses the sequence.
recurse(parent, fac, declarations, force, via, field, H) ==
    Only({Only({Only({
        [err |-> pr.err, heap |-> pr.heap, sq |-> sq,
         step |-> IF pr.err # NoBuildError
                  THEN [NewStep(sb.extras, sb.pin, force, parent, NewSet, NewSet,
                                NoneVal, FALSE)
                        EXCEPT !.phase = "failed", !.err = pr.err,
                               !.factory = fac, !.via = via, !.field = field,
                               !.call = hist.ncalls + 1,
                               !.strategy = steps[parent].strategy]
                  ELSE [NewStep(sb.extras, sb.pin, force, parent, pr.pre, pr.post,
                                sq.sequence, sq.called)
                        EXCEPT !.factory = fac, !.via = via, !.field = field,
                               !.call = hist.ncalls + 1,
                               !.strategy = steps[parent].strategy]] :
            sq \in {ChooseSequence(force, sb.pin, SequenceCounter(fac))}}) :
            pr \in {parse_declarations(sb.extras, BasePre(fac), BasePost(fac), H)}}) :
            sb \in {PopSequence(declarations)}})

\* The effect of the nested build call rc on the state; S and fr are the
\* steps and frames as the caller has them at the call.
Nested(rc, S, fr) ==
    /\ heap' = rc.heap
    /\ frames' = fr
    /\ IF rc.err # NoBuildError
       THEN /\ steps' = [S EXCEPT ![rc.step.parent].kids = Append(@, rc.step)]
            /\ ctl' = [mode |-> "raise", err |-> rc.err]
            /\ seqCounter' = seqCounter
            /\ hist' = [hist EXCEPT !.ncalls = @ + 1]
       ELSE /\ steps' = Append(S, rc.step)
            /\ ctl' = ctl
            /\ seqCounter' = IF rc.step.factory = "F" THEN rc.sq.counter ELSE seqCounter
            /\ hist' = [hist EXCEPT
                  !.ncalls = @ + 1,
                  !.seqCalls = IF rc.sq.called /\ rc.step.factory = "F" THEN @ + 1 ELSE @,
                  !.collCalls = IF rc.sq.called /\ rc.step.factory # "F" THEN @ + 1 ELSE @,
                  !.freeMax = IF rc.sq.called /\ rc.step.factory = "F"
                              THEN Max({@, rc.sq.sequence.id}) ELSE @]

\* BuildStep.resolve: the next field name of the pre set, in the iteration
\* order of its declarations dict, is read on the Resolver.
Pull ==
    /\ steps # <<>>
    /\ Running
    /\ Top.pending = <<>>
    /\ Top.phase = "resolve"
    /\ Top.todo # <<>>
    /\ \E name \in {Head(Top.todo)} :
       \E out \in {GetAttr(Top, heap, name)} :
          /\ heap' = out.heap
          /\ CASE out.kind = "value" ->
                    /\ steps' = [steps EXCEPT ![Len(steps)] =
                                    [out.st EXCEPT !.attributes = (name :> out.v) @@ @,
                                                   !.todo = Tail(@),
                                                   !.log = Append(@, Event("attribute", name))]]
                    /\ UNCHANGED <<frames, ctl, hist>>
               [] out.kind = "eval" ->
                    /\ steps' = [steps EXCEPT ![Len(steps)] = out.st]
                    /\ frames' = Append(frames, [Frame(Len(steps), name, out.v)
                                                 EXCEPT !.pulled = TRUE])
                    /\ UNCHANGED <<ctl, hist>>
               [] out.kind = "raise" ->
                    FailStep(out.st, out.err, frames)
    /\ UNCHANGED <<base_pre, base_post, seqCounter, postCounter, dsVars, ccVars>>

\* A variant of the return of evaluate() that does not cache the value
ReturnedUncached(S, fr, v) ==
    LET F == Last(fr)
        i == F.step
        st == [S[i] EXCEPT !.pending = Front(@)]
        below == Front(fr)
    IN IF F.pulled
       THEN [frames |-> below,
             steps |-> [S EXCEPT ![i] =
                          [st EXCEPT !.attributes = (F.field :> v) @@ @,
                                     !.todo = Tail(@),
                                     !.log = Append(@, Event("attribute", F.field))]]]
       ELSE [frames |-> [below EXCEPT ![Len(below)] =
                          [@ EXCEPT !.acc = Append(@, v), !.pos = @ + 1]],
             steps |-> [S EXCEPT ![i] = st]]

\* A variant of the return of evaluate() that leaves the field on the pending
\* stack
ReturnedKeepsPending(S, fr, v) ==
    LET F == Last(fr)
        i == F.step
        st == [S[i] EXCEPT !.values = (F.field :> v) @@ @]
        below == Front(fr)
    IN IF F.pulled
       THEN [frames |-> below,
             steps |-> [S EXCEPT ![i] =
                          [st EXCEPT !.attributes = (F.field :> v) @@ @,
                                     !.todo = Tail(@),
                                     !.log = Append(@, Event("attribute", F.field))]]]
       ELSE [frames |-> [below EXCEPT ![Len(below)] =
                          [@ EXCEPT !.acc = Append(@, v), !.pos = @ + 1]],
             steps |-> [S EXCEPT ![i] = st]]

\* evaluate() of the innermost frame of fr returns v: __getattr__ pops the
\* pending stack, caches v and returns it to the reader, the frame below or
\* the loop of resolve.
Returned(S, fr, v) ==
    LET F == Last(fr)
        i == F.step
        st == [S[i] EXCEPT !.pending = Front(@),
                           !.values = (F.field :> v) @@ @]
        below == Front(fr)
    IN IF F.pulled
       THEN [frames |-> below,
             steps |-> [S EXCEPT ![i] =
                          [st EXCEPT !.attributes = (F.field :> v) @@ @,
                                     !.todo = Tail(@),
                                     !.log = Append(@, Event("attribute", F.field))]]]
       ELSE [frames |-> [below EXCEPT ![Len(below)] =
                          [@ EXCEPT !.acc = Append(@, v), !.pos = @ + 1]],
             steps |-> [S EXCEPT ![i] = st]]

\* The return of the innermost evaluate() as a step of the build
Return(F, v) ==
    \E r \in {Returned(steps, frames, v)} :
       /\ heap' = heap
       /\ ctl' = ctl
       /\ hist' = hist
       /\ seqCounter' = seqCounter
       /\ frames' = r.frames
       /\ steps' = r.steps

\* A variant that never forces the sequence of the nested build
ForceSequenceNever(decl, st) == NoneVal

\* SubFactory.generate: step.sequence if self.FORCE_SEQUENCE else None
ForceSequence(decl, st) ==
    IF decl.FORCE_SEQUENCE THEN st.sequence ELSE NoneVal

\* evaluate(instance, step, extra) gets declaration.context as extra: the
\* inner dict of the field in the pre set of the step
Extra(F) == heap[steps[F.step].pre.ctx[F.field]]

\* The exception err is raised in the innermost evaluate()
Raise(err) ==
    /\ ctl' = [mode |-> "raise", err |-> err]
    /\ UNCHANGED <<heap, steps, frames, hist, seqCounter>>

\* The innermost evaluate() makes its next read on a Resolver, or returns.
\* LazyAttribute: the function reads its fields in order and returns the
\* computed value. SelfAttribute: deepgetattr reads the attribute on the
\* instance or on a parent and returns it, or the default when the read
\* raises AttributeError. ContainerAttribute: the function reads on the
\* container. Maybe: the decider is read, then the chosen branch is evaluated
\* in place or returned. SubFactory: the nested build call is made.
EvalStep ==
    /\ frames # <<>>
    /\ Running
    /\ Top.pending # <<>>
    /\ \E F \in {Last(frames)} :
       \E tgt \in {ReadTarget(steps, F)} :
          CASE F.decl.t = "sub" ->
                 \E rc \in {recurse(F.step, F.decl.factory,
                                    Updated(F.decl.defaults, Extra(F)),
                                    ForceSequence(F.decl, steps[F.step]),
                                    "field", F.field, heap)} :
                    Nested(rc, steps, frames)
            [] F.decl.t # "sub" /\ tgt.err # NoBuildError
                 /\ (F.pos <= Len(F.decl.deps) \/ tgt.err.type = "TypeError") ->
                 Raise(tgt.err)
            [] F.decl.t # "sub" /\ tgt.err = NoBuildError /\ F.pos > Len(F.decl.deps) ->
                 CASE F.decl.t = "self" -> Return(F, F.acc[1])
                   [] F.decl.t = "maybe" ->
                        \E target \in {IF Truthy(F.acc[1]) THEN F.decl.yes ELSE F.decl.no} :
                           IF IsBaseDeclaration(target)
                           THEN /\ frames' = [frames EXCEPT ![Len(frames)] =
                                                [@ EXCEPT !.decl = target, !.pos = 1,
                                                          !.acc = <<>>]]
                                /\ UNCHANGED <<heap, steps, ctl, hist, seqCounter>>
                           ELSE Return(F, target)
                   [] OTHER -> Return(F, Computed(F.decl, F.acc))
            [] F.decl.t # "sub" /\ tgt.err # NoBuildError /\ tgt.err.type # "TypeError"
                 /\ F.pos > Len(F.decl.deps) ->
                 Return(F, Computed(F.decl, F.acc))
            [] F.decl.t # "sub" /\ tgt.err = NoBuildError /\ F.pos <= Len(F.decl.deps) ->
                 \E name \in {F.decl.deps[F.pos]} :
                 \E out \in {GetAttr(steps[tgt.step], heap, name)} :
                    /\ seqCounter' = seqCounter
                    /\ CASE out.kind = "value" ->
                              /\ heap' = out.heap
                              /\ steps' = [steps EXCEPT ![tgt.step] = out.st]
                              /\ frames' = [frames EXCEPT ![Len(frames)] =
                                               [@ EXCEPT !.acc = Append(@, out.v),
                                                         !.pos = @ + 1]]
                              /\ UNCHANGED <<ctl, hist>>
                         [] out.kind = "eval" ->
                              /\ heap' = out.heap
                              /\ steps' = [steps EXCEPT ![tgt.step] = out.st]
                              /\ frames' = Append(frames, Frame(tgt.step, name, out.v))
                              /\ UNCHANGED <<ctl, hist>>
                         [] out.kind = "raise" /\ Catches(F.decl, out.err) ->
                              /\ heap' = out.heap
                              /\ steps' = [steps EXCEPT ![tgt.step] = out.st]
                              /\ frames' = [frames EXCEPT ![Len(frames)] =
                                               [@ EXCEPT !.acc = Append(@, Caught(F.decl)),
                                                         !.pos = @ + 1]]
                              /\ UNCHANGED <<ctl, hist>>
                         [] out.kind = "raise" /\ ~Catches(F.decl, out.err) ->
                              /\ heap' = out.heap
                              /\ steps' = [steps EXCEPT ![tgt.step] = out.st]
                              /\ ctl' = [mode |-> "raise", err |-> out.err]
                              /\ UNCHANGED <<frames, hist>>
    /\ UNCHANGED <<base_pre, base_post, postCounter, dsVars, ccVars>>

\* An exception leaves the innermost evaluate(): the finally clause of
\* __getattr__ pops the pending stack, nothing is cached, and the exception
\* goes on to the reader: a SelfAttribute with a default or a Maybe catches
\* an AttributeError, the loop of resolve lets it end the build call.
Unwind ==
    /\ frames # <<>>
    /\ ctl.mode = "raise"
    /\ Top.pending # <<>>
    /\ LET F == Last(frames)
           st == [steps[F.step] EXCEPT !.pending = Front(@),
                                       !.fails[F.field] = @ + 1]
           below == Front(frames)
       IN /\ heap' = heap
          /\ IF F.pulled
             THEN FailStep(st, ctl.err, below)
             ELSE /\ steps' = [steps EXCEPT ![F.step] = st]
                  /\ hist' = hist
                  /\ IF Catches(Last(below).decl, ctl.err)
                     THEN /\ frames' = [below EXCEPT ![Len(below)] =
                                          [@ EXCEPT !.acc = Append(@, Caught(Last(below).decl)),
                                                    !.pos = @ + 1]]
                          /\ ctl' = [mode |-> "run", err |-> NoBuildError]
                     ELSE /\ frames' = below
                          /\ ctl' = ctl
    /\ UNCHANGED <<base_pre, base_post, seqCounter, postCounter, dsVars, ccVars>>

\* A variant where the loop over the post-declarations drops the exception of
\* a hook and goes on with the next one
AbortContinues ==
    /\ steps # <<>>
    /\ ctl.mode = "raise"
    /\ Top.pending = <<>>
    /\ heap' = heap
    /\ ctl' = [mode |-> "run", err |-> NoBuildError]
    /\ steps' = [steps EXCEPT ![Len(steps)].postTodo = Tail(@)]
    /\ UNCHANGED <<frames, hist, base_pre, base_post, seqCounter, postCounter, dsVars, ccVars>>

\* An exception leaves a post hook: the loop over the post-declarations lets
\* it end the build call.
Abort ==
    /\ steps # <<>>
    /\ ctl.mode = "raise"
    /\ Top.pending = <<>>
    /\ heap' = heap
    /\ FailStep(Top, ctl.err, frames)
    /\ UNCHANGED <<base_pre, base_post, seqCounter, postCounter, dsVars, ccVars>>

\* All fields are resolved: prepare_arguments(step.attributes) and
\* instantiate(step, args, kwargs) are called, then post.sorted() gives the
\* order of the post hooks.
Instantiate ==
    /\ steps # <<>>
    /\ Running
    /\ Top.pending = <<>>
    /\ Top.phase = "resolve"
    /\ Top.todo = <<>>
    /\ steps' = [steps EXCEPT ![Len(steps)] =
                    [@ EXCEPT !.phase = "post",
                              !.prepared = Top.attributes,
                              !.instance = Instance(Top.call),
                              !.log = @ \o <<Event("prepare_arguments", <<>>),
                                             Event("instantiate", <<>>)>>,
                              !.postTodo = sorted(Top.post, postCounter).names]]
    /\ UNCHANGED <<heap, base_pre, base_post, seqCounter, frames, ctl, hist,
                   postCounter, dsVars, ccVars>>

\* What hooks records of a call of a post-declaration
HookCall(name, cx, args, kwargs) ==
    [name |-> name, value |-> cx.value, did_extract |-> cx.did_extract,
     extra |-> cx.extra, args |-> args, kwargs |-> kwargs]

\* The next post-declaration: post[name], extract(name, context), call(...).
\* PostGeneration and FakePostGenerationDeclaration return at once; a
\* PostGenerationMethodCall calls the method with the arguments it made or
\* raises; a RelatedFactory returns the supplied value or makes the nested
\* build call.
PostHook ==
    /\ steps # <<>>
    /\ Running
    /\ Top.phase = "post"
    /\ Top.postTodo # <<>>
    /\ \E name \in {Head(Top.postTodo)} :
       \E g \in {getitem(Top.post, heap, name)} :
       \E decl \in {Top.post.decl[name]} :
       \E cx \in {extract(name, g.ctxid, g.heap)} :
       \E called \in {[Top EXCEPT !.post = g.set,
                                  !.log = Append(@, Event("hook", name))]} :
          CASE decl.t \in {"post", "fake"} ->
                 /\ heap' = cx.heap
                 /\ steps' = [steps EXCEPT ![Len(steps)] =
                       [called EXCEPT
                          !.postTodo = Tail(@),
                          !.results = (name :> CallHook(decl, cx)) @@ @,
                          !.hooks = Append(@, HookCall(name, cx, <<>>, <<>>))]]
                 /\ UNCHANGED <<seqCounter, frames, ctl, hist>>
            [] decl.t = "method" ->
                 \E pa \in {PassedArgs(decl, cx)} :
                 \E kw \in {PassedKwargs(decl, cx)} :
                    /\ heap' = cx.heap
                    /\ UNCHANGED <<seqCounter, frames, hist>>
                    /\ IF pa.err # NoBuildError
                       THEN /\ steps' = [steps EXCEPT ![Len(steps)] = called]
                            /\ ctl' = [mode |-> "raise", err |-> pa.err]
                       ELSE /\ steps' = [steps EXCEPT ![Len(steps)] =
                                  [called EXCEPT
                                     !.postTodo = Tail(@),
                                     !.results = (name :> Val("ret", decl.id, 0, <<>>,
                                                              FALSE, <<>>)) @@ @,
                                     !.hooks = Append(@, HookCall(name, cx, pa.args, kw))]]
                            /\ ctl' = ctl
            [] decl.t = "related" /\ cx.did_extract ->
                 /\ heap' = cx.heap
                 /\ steps' = [steps EXCEPT ![Len(steps)] =
                       [called EXCEPT
                          !.postTodo = Tail(@),
                          !.results = (name :> cx.value) @@ @,
                          !.hooks = Append(@, HookCall(name, cx, <<>>, <<>>))]]
                 /\ UNCHANGED <<seqCounter, frames, ctl, hist>>
            [] decl.t = "related" /\ ~cx.did_extract ->
                 \E kw \in {RelatedKwargs(decl, cx, Top.instance)} :
                 \E rc \in {recurse(Len(steps), decl.factory, kw, NoneVal,
                                    "hook", name, cx.heap)} :
                    Nested(rc,
                           [steps EXCEPT ![Len(steps)] =
                               [called EXCEPT
                                  !.hooks = Append(@, HookCall(name, cx, <<>>, kw))]],
                           frames)
    /\ UNCHANGED <<base_pre, base_post, postCounter, dsVars, ccVars>>

\* use_postgeneration_results(instance, step, results); return instance. The
\* instance goes to the caller: the user, the evaluate() of the parent's
\* SubFactory field, or the parent's RelatedFactory hook.
Finish ==
    /\ steps # <<>>
    /\ Running
    /\ Top.phase = "post"
    /\ Top.postTodo = <<>>
    /\ \E done \in {[Top EXCEPT !.phase = "done",
                                !.log = Append(@, Event("use_postgeneration_results",
                                                        <<>>))]} :
          CASE Top.via = "root" ->
                 /\ steps' = Front(steps)
                 /\ hist' = [hist EXCEPT !.last = done]
                 /\ frames' = frames
            [] Top.via = "field" ->
                 \E r \in {Returned([Front(steps) EXCEPT ![Top.parent].kids =
                                        Append(@, done)],
                                    frames, Top.instance)} :
                    /\ steps' = r.steps
                    /\ frames' = r.frames
                    /\ hist' = hist
            [] Top.via = "hook" ->
                 /\ steps' = [Front(steps) EXCEPT ![Top.parent] =
                       [@ EXCEPT !.kids = Append(@, done),
                                 !.results = (Top.field :> Top.instance) @@ @,
                                 !.postTodo = Tail(@)]]
                 /\ frames' = frames
                 /\ hist' = hist
    /\ UNCHANGED <<heap, base_pre, base_post, seqCounter, ctl, postCounter, dsVars, ccVars>>

----------------------------------------------------------------------------
(* Spec: build calls of one factory *)


\* The post-generation declarations constructed when the module is loaded:
\* each took the class counter as its creation index and advanced it.
P1 == PostDecl(1, 0)
P2 == PostDecl(2, 1)
P3 == PostDecl(3, 2)

\* The declarations of the factory class, as the mapping given to
\* parse_declarations when the class is defined.
\* Chain: a reads b and c, b reads c; the post field p has deep context x.
ClassChain ==
    << <<ka, LazyAttribute(1, 0, <<kb, kc>>)>>,
       <<kb, LazyAttribute(2, 1, <<kc>>)>>,
       <<kc, LazyAttribute(3, 2, <<>>)>>,
       <<ka__x, Lit(3)>>,
       <<kp, P1>>,
       <<kp__x, Lit(3)>> >>

\* Cycle: a reads b, b reads a.
ClassCycle ==
    << <<ka, LazyAttribute(1, 0, <<kb>>)>>,
       <<kb, LazyAttribute(2, 1, <<ka>>)>>,
       <<kc, Lit(6)>>,
       <<kq, P2>>,
       <<kp, P1>> >>

\* Default: a copies b or takes its default; b reads the undeclared z.
ClassDefault ==
    << <<ka, SelfAttribute(1, 0, kb, TRUE)>>,
       <<kb, LazyAttribute(2, 1, <<kz>>)>>,
       <<kc, SelfAttribute(3, 2, kb, FALSE)>>,
       <<kp, P1>> >>

Classes == {ClassChain, ClassCycle, ClassDefault}

\* The entries the call-time overrides are made of
BuildPairs ==
    {<<ka, Lit(7)>>, <<kb, Lit(7)>>, <<kz, Lit(7)>>,
     <<kc, LazyAttribute(4, 3, <<ka>>)>>, <<kb, LazyAttribute(5, 4, <<ka>>)>>,
     <<ka, LazyAttribute(6, 5, <<kc>>)>>,
     <<ka__x, Lit(7)>>, <<kz__x, Lit(7)>>,
     <<kp, Lit(7)>>, <<kp__x, Lit(7)>>,
     <<ka, P3>>, <<kr, P3>>, <<kr__x, Lit(7)>>}

BuildArgs ==
    {<<>>} \cup {<<e>> : e \in BuildPairs} \cup {<<e, f>> : e \in BuildPairs, f \in BuildPairs}

DSIdle ==
    /\ s = NewSet
    /\ c = NewSet
    /\ last = NoCall
    /\ nops = 0

\* The factory class is defined: its base sets are parsed from the class
\* declarations; no build call was made yet.
Init ==
    /\ DSIdle
    /\ CCIdle
    /\ postCounter = 3
    /\ seqCounter = 0
    /\ steps = <<>>
    /\ frames = <<>>
    /\ ctl = [mode |-> "run", err |-> NoBuildError]
    /\ \E cls \in Classes :
       \E pr \in {parse_declarations(cls, NewSet, NewSet, <<>>)} :
             /\ base_pre = pr.pre
             /\ base_post = pr.post
             /\ heap = pr.heap
             /\ hist = NewHist(pr.pre, pr.post, pr.heap)

Next ==
    \/ /\ hist.nbuilds < MaxBuilds
       /\ \E extras \in BuildArgs : StartBuild(extras, NoneVal)
    \/ Pull
    \/ EvalStep
    \/ Unwind
    \/ Instantiate
    \/ PostHook
    \/ Finish

Spec == Init /\ [][Next]_vars

----------------------------------------------------------------------------
(* SpecSet: build calls whose functions try to set attributes *)

\* Number of attempts to set an attribute in one run
MaxSets == 1

\* The names and the value of the attempts: a declared field, an undeclared
\* name
SetNames == {ka, kz}

SetValue == Lit(7)

\* The function of the LazyAttribute under evaluation runs
\* setattr(instance, name, value) on the Resolver it was given; an exception
\* of __setattr__ is raised in the function.
SetAttr ==
    /\ steps # <<>>
    /\ Running
    /\ frames # <<>>
    /\ Top.pending # <<>>
    /\ Last(frames).decl.t = "lazy"
    /\ hist.sets < MaxSets
    /\ \E name \in SetNames :
       \E r \in {setattr(steps[Last(frames).step], name, SetValue)} :
          /\ steps' = [steps EXCEPT ![Last(frames).step] = r.st]
          /\ ctl' = IF r.err # NoBuildError
                    THEN [mode |-> "raise", err |-> r.err]
                    ELSE ctl
          /\ hist' = [hist EXCEPT !.sets = @ + 1]
    /\ UNCHANGED <<heap, frames, seqCounter, base_pre, base_post, postCounter, dsVars, ccVars>>

NextSet ==
    \/ Next
    \/ SetAttr

SpecSet == Init /\ [][NextSet]_vars

----------------------------------------------------------------------------
(* SpecSeq: build calls with a forced or pinned sequence *)

\* Number of build calls in one run of SpecSeq
MaxSeqBuilds == 2

\* The overrides of the calls: without the reserved key, with it set to
\* None, 0 or 2, and with it next to another override
SeqArgs ==
    {<<>>,
     << <<kSEQ, NoneVal>> >>,
     << <<kSEQ, Lit(0)>> >>,
     << <<kSEQ, Lit(2)>> >>,
     << <<ka, Lit(7)>>, <<kSEQ, Lit(0)>> >>,
     << <<kSEQ, Lit(2)>>, <<kz__x, Lit(7)>> >>}

\* The force_sequence arguments: None, 0 and 3
Forces == {NoneVal, Lit(0), Lit(3)}

NextSeq ==
    \/ /\ hist.nbuilds < MaxSeqBuilds
       /\ \E extras \in SeqArgs : \E force \in Forces : StartBuild(extras, force)
    \/ Pull
    \/ EvalStep
    \/ Unwind
    \/ Instantiate
    \/ PostHook
    \/ Finish

SpecSeq == Init /\ [][NextSeq]_vars

----------------------------------------------------------------------------
(* SpecNest: build calls with nested builds, conditional fields and hooks *)

\* Number of root build calls in one run of SpecNest
MaxNestBuilds == 2

ks == <<"s">>
kd == <<"d">>
kl == <<"l">>
ky == <<"y">>
kw == <<"w">>
kt == <<"t">>
km == <<"m">>
kn == <<"n">>
ko == <<"o">>

\* A factory with a SubFactory of itself: the nested build gets s=None, its b
\* copies the parent's c and its a is computed from the parent's a.
NestSub ==
    << <<ka, LazyAttribute(1, 0, <<>>)>>,
       <<kb, LazyAttribute(2, 1, <<ka>>)>>,
       <<ks, SubFactory(3, 2, "F",
                        << <<ks, NoneVal>>,
                           <<kb, ParentAttribute(4, 3, 2, kc, FALSE)>>,
                           <<ka, ContainerAttribute(5, 4, TRUE, <<ka>>)>> >>)>>,
       <<kc, LazyAttribute(6, 5, <<>>)>> >>

\* A factory with a Dict holding a Dict, and a List
NestDict ==
    << <<ka, LazyAttribute(1, 0, <<>>)>>,
       <<kd, Dict(2, 1,
                  << <<kx, Lit(1)>>,
                     <<ky, Dict(3, 2,
                                << <<kw, ParentAttribute(4, 3, 3, ka, FALSE)>> >>)>> >>)>>,
       <<kl, List(5, 4, <<Lit(1), ParentAttribute(6, 5, 2, ka, FALSE)>>)>> >>

\* A factory with two RelatedFactory hooks on itself, r with the
\* back-reference name b and q without one, and a PostGeneration hook
NestRelated ==
    << <<ka, LazyAttribute(1, 0, <<>>)>>,
       <<kb, Lit(1)>>,
       <<kq, RelatedFactory(4, 1, "F", <<>>,
                            << <<kr, NoneVal>>, <<kq, NoneVal>> >>)>>,
       <<kr, RelatedFactory(5, 0, "F", kb,
                            << <<kr, NoneVal>>, <<kq, NoneVal>>,
                               <<kb, Lit(2)>>, <<ka, Lit(3)>> >>)>>,
       <<kp, P3>> >>

\* The declarations of a factory before its trait t is applied
MaybeDeclarations ==
    << <<ka, LazyAttribute(1, 0, <<>>)>>,
       <<kb, Lit(1)>>,
       <<kt, Lit(0)>>,
       <<kz, Maybe(9, kx, LazyAttribute(4, 3, <<kb>>), Lit(2))>>,
       <<ks, Maybe(11, kx, SubFactory(12, 5, "F", << <<kx, Lit(0)>> >>), NoneVal)>> >>

\* Trait(a=9, c=LazyAttribute(...)) installed at the field t
TraitOverrides ==
    << <<ka, Lit(9)>>, <<kc, LazyAttribute(2, 1, <<kb>>)>> >>

\* A factory with the trait t: dict.update of the declarations with the
\* Maybe objects of the trait
NestMaybe ==
    [i \in DOMAIN MaybeDeclarations |->
        IF MaybeDeclarations[i][1] \in KeysOf(TraitOverrides)
        THEN <<MaybeDeclarations[i][1],
               ValueInSeq(as_declarations(TraitOverrides, kt, MaybeDeclarations,
                                          <<7, 8>>),
                          MaybeDeclarations[i][1])>>
        ELSE MaybeDeclarations[i]]
    \o Select(as_declarations(TraitOverrides, kt, MaybeDeclarations, <<7, 8>>),
              KeysOf(TraitOverrides) \ KeysOf(MaybeDeclarations))

\* A factory with three PostGenerationMethodCall hooks: one static argument
\* and a keyword, two static arguments, none
NestMethod ==
    << <<ka, LazyAttribute(1, 0, <<>>)>>,
       <<km, PostGenerationMethodCall(4, 0, <<Lit(1)>>, << <<kx, Lit(1)>> >>)>>,
       <<kn, PostGenerationMethodCall(5, 1, <<Lit(1), Lit(2)>>, <<>>)>>,
       <<ko, PostGenerationMethodCall(6, 2, <<>>, <<>>)>> >>

NestClasses ==
    [sub |-> NestSub, dict |-> NestDict, related |-> NestRelated,
     maybe |-> NestMaybe, method |-> NestMethod]

\* The overrides of the root build calls, for each class
NestPairs ==
    [sub |-> {<<join(ks, kb), ParentAttribute(7, 6, 2, ks, FALSE)>>,
              <<join(ks, kSEQ), Lit(5)>>,
              <<kSEQ, Lit(2)>>,
              <<join(ks, join(kz, kx)), Lit(7)>>,
              <<ka, ContainerAttribute(8, 7, TRUE, <<>>)>>,
              <<ks, NoneVal>>,
              <<join(ks, kc), ParentAttribute(9, 8, 3, ka, TRUE)>>,
              <<join(ks, kc), ParentAttribute(11, 10, 2, kw, TRUE)>>,
              <<join(ks, ks), SubFactory(10, 9, "F", << <<ks, NoneVal>> >>)>>},
     dict |-> {<<join(kd, kSEQ), Lit(5)>>,
               <<kSEQ, Lit(2)>>,
               <<join(kd, kx), Lit(7)>>,
               <<join(kd, join(ky, kSEQ)), Lit(4)>>,
               <<join(kl, kSEQ), Lit(5)>>},
     related |-> {<<kr, NoneVal>>,
                  <<kr, Lit(7)>>,
                  <<join(kr, ka), Lit(7)>>,
                  <<join(kr, kb), Lit(7)>>,
                  <<join(kr, join(kz, kx)), Lit(7)>>,
                  <<join(kr, ka), ParentAttribute(7, 6, 2, ka, FALSE)>>,
                  <<join(kr, kSEQ), Lit(5)>>,
                  <<kq, NoneVal>>},
     maybe |-> {<<kt, Lit(1)>>, <<kt, NoneVal>>, <<kx, Lit(1)>>, <<kx, Lit(0)>>,
                <<kt, LazyAttribute(5, 4, <<ka>>)>>,
                <<kb, LazyAttribute(6, 5, <<ky>>)>>,
                <<kx, LazyAttribute(10, 9, <<ky>>)>>,
                <<join(ks, kb), Lit(7)>>},
     method |-> {<<km, Lit(7)>>, <<km, NoneVal>>,
                 <<kn, Tuple(<<8, 9>>)>>, <<kn, Lit(7)>>,
                 <<join(km, kx), Lit(7)>>, <<join(km, ky), Lit(7)>>,
                 <<ko, Lit(7)>>}]

\* Calls with two overrides
NestCombos ==
    [sub |-> {<< <<kSEQ, Lit(2)>>, <<join(ks, kSEQ), Lit(5)>> >>,
              << <<join(ks, ks), SubFactory(10, 9, "F", << <<ks, NoneVal>> >>)>>,
                 <<join(ks, join(ks, kSEQ)), Lit(0)>> >>,
              << <<kc, LazyAttribute(12, 11, <<ky>>)>>,
                 <<join(ks, kb), Lit(7)>>,
                 <<join(ks, kc), ParentAttribute(13, 12, 2, kc, TRUE)>> >>},
     dict |-> {<< <<kSEQ, Lit(2)>>, <<join(kd, kSEQ), Lit(5)>> >>},
     related |-> {<< <<join(kr, kb), Lit(7)>>, <<join(kr, kSEQ), Lit(5)>> >>},
     maybe |-> {<< <<kt, Lit(1)>>, <<kx, Lit(1)>>, <<join(ks, kb), Lit(7)>> >>},
     method |-> {<< <<km, Lit(7)>>, <<join(km, kx), Lit(7)>> >>}]

NestArgs(cls) ==
    {<<>>} \cup {<<e>> : e \in NestPairs[cls]} \cup NestCombos[cls]

\* The force_sequence arguments of the root build calls
NestForces == {NoneVal, Lit(3)}

\* The strategies a root StepBuilder is made with
Strategies == {"build", "create"}

InitNest ==
    /\ DSIdle
    /\ CCIdle
    /\ postCounter = 7
    /\ seqCounter = 0
    /\ steps = <<>>
    /\ frames = <<>>
    /\ ctl = [mode |-> "run", err |-> NoBuildError]
    /\ \E cls \in DOMAIN NestClasses :
       \E pr \in {parse_declarations(NestClasses[cls], NewSet, NewSet, <<>>)} :
             /\ base_pre = pr.pre
             /\ base_post = pr.post
             /\ heap = pr.heap
             /\ \E strategy \in Strategies :
                   hist = [NewHist(pr.pre, pr.post, pr.heap)
                           EXCEPT !.cls = cls, !.strategy = strategy]

NextNest ==
    \/ /\ hist.nbuilds < MaxNestBuilds
       /\ \E extras \in NestArgs(hist.cls) : \E force \in NestForces :
             StartBuild(extras, force)
    \/ Pull
    \/ EvalStep
    \/ Unwind
    \/ Abort
    \/ Instantiate
    \/ PostHook
    \/ Finish

SpecNest == InitNest /\ [][NextNest]_vars

----------------------------------------------------------------------------
(* SpecDS: two DeclarationSet objects under update, copy and item reads *)


\* The two FakePostGenerationDeclaration objects used as values
F1 == FakeDecl(1)
F2 == FakeDecl(2)

\* The (key, value) entries the update arguments are made of
DSPairs ==
    {<<ka, Lit(1)>>, <<ka, F1>>, <<kb, F2>>, <<ka__b, Lit(1)>>, <<ka__b, Lit(2)>>}

\* The mappings given to update: the empty one, one entry, or two entries
\* with distinct keys, in either iteration order.
DSArgs ==
    {<<>>} \cup {<<p>> : p \in DSPairs} \cup {<<p, q>> : p \in DSPairs, q \in DSPairs}

\* The build variables while no factory is in use
BuildIdle ==
    /\ base_pre = NewSet
    /\ base_post = NewSet
    /\ seqCounter = 0
    /\ steps = <<>>
    /\ frames = <<>>
    /\ ctl = [mode |-> "run", err |-> NoBuildError]
    /\ hist = NewHist(NewSet, NewSet, <<>>)

InitDS ==
    /\ heap = <<>>
    /\ s = DeclarationSet(<<>>, <<>>).set
    /\ c = DeclarationSet(<<>>, <<>>).set
    /\ postCounter = 0
    /\ last = NoCall
    /\ nops = 0
    /\ BuildIdle
    /\ CCIdle

\* s.update(kvs)
UpdateS(kvs) ==
    /\ nops < MaxOps
    /\ DistinctKeys(kvs)
    /\ \E r \in {update(s, heap, kvs)} :
          /\ s' = r.set
          /\ heap' = r.heap
          /\ last' = [op |-> "update", target |-> "s", arg |-> kvs, err |-> r.err]
    /\ nops' = nops + 1
    /\ UNCHANGED <<c, postCounter, buildVars, ccVars>>

\* c.update(kvs)
UpdateC(kvs) ==
    /\ nops < MaxOps
    /\ DistinctKeys(kvs)
    /\ \E r \in {update(c, heap, kvs)} :
          /\ c' = r.set
          /\ heap' = r.heap
          /\ last' = [op |-> "update", target |-> "c", arg |-> kvs, err |-> r.err]
    /\ nops' = nops + 1
    /\ UNCHANGED <<s, postCounter, buildVars, ccVars>>

\* c = s.copy()
CopyS ==
    /\ nops < MaxOps
    /\ c' = copy(s)
    /\ last' = [op |-> "copy", target |-> "c", arg |-> <<>>, err |-> NoError]
    /\ nops' = nops + 1
    /\ UNCHANGED <<s, heap, postCounter, buildVars, ccVars>>

\* s[key], for a field of s or for another key
GetItemS(key) ==
    /\ nops < MaxOps
    /\ \E r \in {getitem(s, heap, key)} :
          /\ s' = r.set
          /\ heap' = r.heap
          /\ last' = [op |-> "getitem", target |-> "s",
                      arg |-> <<<<key, Lit(0)>>>>, err |-> r.err]
    /\ nops' = nops + 1
    /\ UNCHANGED <<c, postCounter, buildVars, ccVars>>

\* list(s.values()), or s.as_dict()
ValuesS ==
    /\ nops < MaxOps
    /\ \E r \in {values(s, heap)} :
          /\ s' = r.set
          /\ heap' = r.heap
    /\ last' = [op |-> "values", target |-> "s", arg |-> <<>>, err |-> NoError]
    /\ nops' = nops + 1
    /\ UNCHANGED <<c, postCounter, buildVars, ccVars>>

NextDS ==
    \/ \E kvs \in DSArgs : UpdateS(kvs)
    \/ \E kvs \in DSArgs : UpdateC(kvs)
    \/ CopyS
    \/ \E key \in {ka, kb} : GetItemS(key)
    \/ ValuesS

SpecDS == InitDS /\ [][NextDS]_vars

----------------------------------------------------------------------------
(* SpecRT: DeclarationSet(d) for one override mapping d *)


RTKeys == {ka, kb, kempty, ka_, ka__b, kb__a, ka__b__a, ka___b, k__a, ka__}

RTPairs == {<<k, Lit(n)>> : k \in RTKeys, n \in {1, 2}}

\* The mappings: one, two or three entries with distinct keys, in every
\* iteration order.
RTArgs ==
    {kvs \in {<<p>> : p \in RTPairs}
             \cup {<<p, q>> : p \in RTPairs, q \in RTPairs}
             \cup {<<p, q, r>> : p \in RTPairs, q \in RTPairs, r \in RTPairs} :
        DistinctKeys(kvs)}

InitRT ==
    /\ heap = <<>>
    /\ s = NewSet
    /\ c = NewSet
    /\ postCounter = 0
    /\ \E d \in RTArgs :
          last = [op |-> "input", target |-> "s", arg |-> d, err |-> NoError]
    /\ nops = 0
    /\ BuildIdle
    /\ CCIdle

\* s = DeclarationSet(d)
Construct ==
    /\ last.op = "input"
    /\ \E r \in {DeclarationSet(heap, last.arg)} :
          /\ s' = r.set
          /\ heap' = r.heap
          /\ last' = [last EXCEPT !.op = "construct", !.err = r.err]
    /\ nops' = nops + 1
    /\ UNCHANGED <<c, postCounter, buildVars, ccVars>>

NextRT == Construct

SpecRT == InitRT /\ [][NextRT]_vars

----------------------------------------------------------------------------
(* SpecCC: declarations constructed by threads *)

\* Number of declarations constructed in one run
MaxMade == 3

\* The classes that are instantiated: a LazyAttribute and a Maybe of the
\* ordinary family, a PostGeneration and a FakePostGenerationDeclaration of
\* the post-generation family
Variants == {"lazy", "maybe", "post", "fake"}

\* The family of a declaration: the class that holds its counter
FamilyOf(t) == IF IsPost(Val(t, 0, 0, <<>>, FALSE, <<>>)) THEN "post" ELSE "base"

\* Whether the constructor of the class runs the __init__ of the family:
\* those of Maybe and FakePostGenerationDeclaration do not call it
CallsInit(t) == t \notin {"maybe", "fake"}

\* Class.creation_counter of a family
ClassCounter(family) == IF family = "post" THEN postCounter ELSE baseCounter

\* An increment that adds two
IncrementByTwo(loaded) == loaded + 2

\* The value stored by Class.creation_counter += 1 for the value it loaded
Increment(loaded) == loaded + 1

\* The counters after the store of value into the counter of family
Stored(family, value) ==
    /\ baseCounter' = IF family = "base" THEN value ELSE baseCounter
    /\ postCounter' = IF family = "post" THEN value ELSE postCounter

\* Thread t constructs a declaration of class v. With the __init__ of the
\* family, self.creation_counter = Class.creation_counter stores the class
\* counter in the instance; otherwise the constructor is over at once and
\* the instance has no creation_counter. When the callers serialize, no
\* other thread is inside a constructor.
NewDeclaration(t, v) ==
    /\ Len(made) < MaxMade
    /\ threads[t].pc = "idle"
    /\ locked => \A u \in Threads : threads[u].pc = "idle"
    /\ IF CallsInit(v)
       THEN /\ made' = Append(made, Val(v, Len(made) + 1, ClassCounter(FamilyOf(v)),
                                        <<>>, FALSE, <<>>))
            /\ threads' = [threads EXCEPT ![t] =
                  [pc |-> "load", family |-> FamilyOf(v), loaded |-> 0]]
       ELSE /\ made' = Append(made, Val(v, Len(made) + 1, 0, <<>>, FALSE, <<>>))
            /\ threads' = threads
    /\ UNCHANGED <<heap, postCounter, baseCounter, locked, dsVars, buildVars>>

\* Class.creation_counter += 1, first half: the counter is loaded
LoadCounter(t) ==
    /\ threads[t].pc = "load"
    /\ threads' = [threads EXCEPT ![t] =
          [@ EXCEPT !.pc = "store", !.loaded = ClassCounter(threads[t].family)]]
    /\ UNCHANGED <<heap, postCounter, baseCounter, made, locked, dsVars, buildVars>>

\* Class.creation_counter += 1, second half: the sum is stored; __init__
\* returns
StoreCounter(t) ==
    /\ threads[t].pc = "store"
    /\ Stored(threads[t].family, Increment(threads[t].loaded))
    /\ threads' = [threads EXCEPT ![t] = IdleThread]
    /\ UNCHANGED <<heap, made, locked, dsVars, buildVars>>

InitCC ==
    /\ heap = <<>>
    /\ postCounter = 0
    /\ DSIdle
    /\ BuildIdle
    /\ baseCounter = 0
    /\ threads = [t \in Threads |-> IdleThread]
    /\ made = <<>>
    /\ locked \in BOOLEAN

NextCC ==
    \/ \E t \in Threads : \E v \in Variants : NewDeclaration(t, v)
    \/ \E t \in Threads : LoadCounter(t)
    \/ \E t \in Threads : StoreCounter(t)

SpecCC == InitCC /\ [][NextCC]_vars

----------------------------------------------------------------------------
(* Properties of DeclarationSet *)

\* The mapping an update argument stands for
ValueIn(kvs, k) == ValueInSeq(kvs, k)

AsMapping(kvs) == [k \in KeysOf(kvs) |-> ValueIn(kvs, k)]

\* The text of key before its first separator, found by trying every cut:
\* the shortest prefix that is followed by the separator.
RootText(key) ==
    LET cuts == {n \in 0..Len(key) :
                    /\ n + 2 <= Len(key)
                    /\ SubSeq(key, n + 1, n + 2) = SPLITTER}
    IN IF cuts = {} THEN key ELSE SubSeq(key, 1, Min(cuts))

HasSeparator(key) ==
    \E n \in 0..Len(key) : n + 2 <= Len(key) /\ SubSeq(key, n + 1, n + 2) = SPLITTER

\* Every deep key of kvs has its root among the flat keys of kvs
RootsAreFlatKeys(kvs) ==
    \A k \in KeysOf(kvs) : HasSeparator(k) => RootText(k) \in KeysOf(kvs)

\* C5: round trip. For an override mapping d in which every deep key's root
\* is also a flat key of d, DeclarationSet(d) is built without error and
\* as_dict() gives d back; a key with several separators is stored under the
\* text before its first separator (a__b__a under root a, sub-key b__a).
C5_RoundTrip ==
    (last.op = "construct" /\ RootsAreFlatKeys(last.arg)) =>
        /\ last.err = NoError
        /\ as_dict(s, heap) = AsMapping(last.arg)
        /\ ka__b__a \in KeysOf(last.arg) =>
              /\ ka \in DOMAIN s.ctx
              /\ <<"b", "_", "_", "a">> \in DOMAIN heap[s.ctx[ka]]
              /\ heap[s.ctx[ka]][<<"b", "_", "_", "a">>] = ValueIn(last.arg, ka__b__a)

\* C5 witness: a mapping with the flat key a and the key a__b__a was built
C5_Witness ==
    /\ last.op = "construct"
    /\ RootsAreFlatKeys(last.arg)
    /\ ka__b__a \in KeysOf(last.arg)
    /\ ka___b \in KeysOf(last.arg)
    /\ as_dict(s, heap) = AsMapping(last.arg)

\* C4: copy() gives an independently mutable set. Right after c = s.copy()
\* both flatten to the same dict; an update on c whose deep keys all lie
\* under roots that have deep context in s leaves s.as_dict() unchanged, and
\* an update on s leaves c.as_dict() unchanged.
C4_CopyIndependent ==
    [][/\ last'.op = "copy" => as_dict(c', heap') = as_dict(s', heap')
       /\ (/\ last'.op = "update"
           /\ last'.target = "c"
           /\ \A k \in KeysOf(last'.arg) :
                 HasSeparator(k) => RootText(k) \in DOMAIN s.ctx)
          => as_dict(s', heap') = as_dict(s, heap)
       /\ (last'.op = "update" /\ last'.target = "s")
          => as_dict(c', heap') = as_dict(c, heap)]_vars

\* The deep keys and sub-keys an update with kvs leaves in set S
RootsAfter(S, kvs) ==
    DOMAIN S.ctx \cup {RootText(k) : k \in {x \in KeysOf(kvs) : HasSeparator(x)}}

FieldsAfter(S, kvs) ==
    DOMAIN S.decl \cup {k \in KeysOf(kvs) : ~HasSeparator(k)}

DeepKeysAfter(S, H, kvs, root) ==
    {join(root, sub) : sub \in DOMAIN ContextOf(S, H, root)}
    \cup {k \in KeysOf(kvs) : HasSeparator(k) /\ RootText(k) = root}

\* What update(kvs) on set S must answer, whatever the order of kvs
ExpectedUpdateError(S, H, kvs) ==
    LET bad == RootsAfter(S, kvs) \ FieldsAfter(S, kvs)
    IN IF bad = {} THEN NoError
       ELSE [type |-> "InvalidDeclarationError",
             keys |-> UNION {DeepKeysAfter(S, H, kvs, root) : root \in bad},
             known |-> FieldsAfter(S, kvs)]

\* C6: update raises InvalidDeclarationError iff, with all keys of the call
\* applied, some deep-context root is not a field; the answer depends on the
\* keys of the call as a set, not on their order, and the error names every
\* offending deep key and the known fields.
C6_UpdateCheckedOnce ==
    [][/\ (last'.op = "update" /\ last'.target = "s")
          => last'.err = ExpectedUpdateError(s, heap, last'.arg)
       /\ (last'.op = "update" /\ last'.target = "c")
          => last'.err = ExpectedUpdateError(c, heap, last'.arg)]_vars

\* C6 witness: the first update of a run gave a__b before a and was accepted
C6_Witness ==
    /\ nops = 1
    /\ last.op = "update"
    /\ Len(last.arg) = 2
    /\ last.arg[1][1] = ka__b
    /\ last.arg[2][1] = ka
    /\ last.err = NoError

Ascending(names, S, classCounter) ==
    \A i, j \in DOMAIN names :
        i < j => CreationCounter(S.decl[names[i]], classCounter)
                   <= CreationCounter(S.decl[names[j]], classCounter)

\* C7: sorted() lists the field names in ascending creation index, and two
\* sets holding the same declarations under the same names give the same
\* list whatever order the entries were inserted in.
C7_SortedDeterministic ==
    LET rs == sorted(s, postCounter)
        rc == sorted(c, postCounter)
    IN (rs.err = "none" /\ rc.err = "none") =>
          /\ Ascending(rs.names, s, postCounter)
          /\ Ascending(rc.names, c, postCounter)
          /\ s.decl = c.decl => rs.names = rc.names

----------------------------------------------------------------------------
(* Properties of the Resolver *)

\* The build calls in progress and the last one that ended
AllSteps == Range(steps) \cup {hist.last}

NoDuplicates(seq) == \A i, j \in DOMAIN seq : seq[i] = seq[j] => i = j

\* The fields the declaration of f reads when it is evaluated
ReadsOf(pre, f) ==
    IF f \in DOMAIN pre.decl /\ IsBaseDeclaration(pre.decl[f])
    THEN Range(pre.decl[f].deps)
    ELSE {}

\* S and everything read, directly or not, by the fields of S
RECURSIVE ReadClosure(_, _)
ReadClosure(pre, S) ==
    LET T == S \cup UNION {ReadsOf(pre, f) : f \in S}
    IN IF T = S THEN S ELSE ReadClosure(pre, T)

\* The evaluation of f transitively reads f
ReadsItself(pre, f) == f \in ReadClosure(pre, ReadsOf(pre, f))

\* Some declaration reads a name that is not declared
ReadsUndeclared(pre) ==
    \E f \in DOMAIN pre.decl : ~(ReadsOf(pre, f) \subseteq DOMAIN pre.decl)

\* The error a step is ending with: the one it failed with, or the one on
\* its way up
ErrorOf(st) == IF st.phase = "failed" THEN st.err ELSE ctl.err

\* C1: a read of a field that is on the pending stack raises
\* CyclicDefinitionError naming the field and the pending stack, a chain of
\* reads from its first entry to the field; the field is not evaluated again
\* (it is never twice on the stack, and the calls in progress are as many as
\* the pending names) and gets no value; a build whose declarations contain a
\* field that transitively reads itself never returns, and ends in
\* CyclicDefinitionError when every name read is declared.
C1_CyclicDetected ==
    /\ steps # <<>> => Len(frames) = Len(Top.pending)
    /\ \A st \in AllSteps :
          /\ NoDuplicates(st.pending)
          /\ st.cyc \cap (DOMAIN st.values \cup DOMAIN st.attributes) = {}
          /\ st.cyc # {} =>
                /\ ErrorOf(st).type = "CyclicDefinitionError"
                /\ ErrorOf(st).name \in st.cyc
                /\ ErrorOf(st).name \in Range(ErrorOf(st).stack)
                /\ NoDuplicates(ErrorOf(st).stack)
                /\ \A i \in DOMAIN ErrorOf(st).stack :
                      IF i < Len(ErrorOf(st).stack)
                      THEN ErrorOf(st).stack[i + 1] \in ReadsOf(st.pre, ErrorOf(st).stack[i])
                      ELSE ErrorOf(st).name \in ReadsOf(st.pre, ErrorOf(st).stack[i])
          /\ (\E f \in DOMAIN st.pre.decl : ReadsItself(st.pre, f)) =>
                /\ st.phase \in {"resolve", "failed"}
                /\ (st.phase = "failed" /\ ~ReadsUndeclared(st.pre))
                      => st.err.type = "CyclicDefinitionError"

\* C1 witness: a reads b and b reads a; the build ended in the
\* CyclicDefinitionError for a with the stack [a, b]
C1_Witness ==
    /\ hist.last.phase = "failed"
    /\ hist.last.err.type = "CyclicDefinitionError"
    /\ hist.last.err.name = ka
    /\ hist.last.err.stack = <<ka, kb>>
    /\ hist.last.pre.decl[ka].t = "lazy"

CachedByEvaluate(st, f) ==
    f \in DOMAIN st.values /\ IsBaseDeclaration(st.pre.decl[f])

----------------------------------------------------------------------------
(* Properties of parse_declarations and StepBuilder.build *)

\* C3: the base sets of the factory are never changed by a build call:
\* base_pre.as_dict() and base_post.as_dict(), deep context included, are at
\* every moment what they were before the first build.
C3_BaseSetsUnchanged ==
    /\ as_dict(base_pre, heap) = hist.base0pre
    /\ as_dict(base_post, heap) = hist.base0post

\* The step is the start of a build call (hist'.raw holds its overrides)
BuildStarts == hist'.nbuilds = hist.nbuilds + 1

\* The positions of the overrides that are post-declarations named like a
\* pre-declaration of the factory
Shadowing(raw, bpre) ==
    {i \in DOMAIN raw : IsPost(raw[i][2]) /\ raw[i][1] \in DOMAIN bpre.decl}

\* C8: a build call given a post-declaration under the name of an existing
\* pre-declaration raises InvalidDeclarationError for that name (not the
\* deep-context error of update); no step is built from any set of the call,
\* the base sets and their flattened contents are what they were before the
\* call, and no sequence number is taken.
C8_ShadowingRejected ==
    [][(BuildStarts /\ Shadowing(hist'.raw, base_pre) # {}) =>
          /\ steps' = <<>>
          /\ hist'.last.phase = "failed"
          /\ hist'.last.err.type = "InvalidDeclarationError"
          /\ hist'.last.err.name = hist'.raw[Min(Shadowing(hist'.raw, base_pre))][1]
          /\ hist'.last.err.cause = NoError
          /\ base_pre' = base_pre
          /\ base_post' = base_post
          /\ as_dict(base_pre', heap') = as_dict(base_pre, heap)
          /\ as_dict(base_post', heap') = as_dict(base_post, heap)
          /\ seqCounter' = seqCounter]_vars

\* C8 witness: build(a__x=7, a=<post-declaration>) on a factory whose field a
\* is a pre-declaration with deep context was rejected
C8_Witness ==
    /\ hist.raw = << <<ka__x, Lit(7)>>, <<ka, P3>> >>
    /\ ka__x \in DOMAIN hist.base0pre
    /\ hist.last.phase = "failed"
    /\ hist.last.err.type = "InvalidDeclarationError"
    /\ hist.last.err.name = ka
    /\ as_dict(base_pre, heap) = hist.base0pre

\* The positions of the overrides that are not post-declarations, the
\* reserved sequence key left out
PlainOverrides(raw) ==
    {i \in DOMAIN raw : ~IsPost(raw[i][2]) /\ raw[i][1] # kSEQ}

\* The post fields of a call: those of the base post set and the
\* post-declarations the call adds
PostFields(raw, bpost) ==
    DOMAIN bpost.decl \cup {raw[i][1] : i \in {j \in DOMAIN raw : IsPost(raw[j][2])}}

\* The overrides that belong to a post field, and the others
ToPost(raw, bpost) ==
    {i \in PlainOverrides(raw) : RootText(raw[i][1]) \in PostFields(raw, bpost)}

ToPre(raw, bpost) == PlainOverrides(raw) \ ToPost(raw, bpost)

\* root__k, the flattened key of override k kept as deep context of its root
UnderRoot(k) == RootText(k) \o <<"_", "_">> \o k

\* The flattened pre set after the call: the base entries, with the keys of
\* the overrides that belong to no post field set to their values
ExpectedPre(raw, bpre, bpost, H) ==
    LET mine == {raw[i][1] : i \in ToPre(raw, bpost)}
    IN [k \in DOMAIN as_dict(bpre, H) \cup mine |->
           IF k \in mine THEN ValueIn(raw, k) ELSE as_dict(bpre, H)[k]]

\* The flattened post set after the call: the base entries, the
\* post-declarations of the call, and each override of a post field under
\* root__k
ExpectedPost(raw, bpre, bpost, H) ==
    LET decls == {raw[i][1] : i \in {j \in DOMAIN raw : IsPost(raw[j][2])}}
        deep == {raw[i][1] : i \in ToPost(raw, bpost)}
    IN [k \in DOMAIN as_dict(bpost, H) \cup decls \cup {UnderRoot(d) : d \in deep} |->
           IF k \in decls THEN ValueIn(raw, k)
           ELSE IF \E d \in deep : UnderRoot(d) = k
           THEN ValueIn(raw, CHOOSE d \in deep : UnderRoot(d) = k)
           ELSE as_dict(bpost, H)[k]]

\* The call is refused: a post-declaration shadows a pre-declaration, or a
\* deep override that belongs to no post field has a root that is no field
ExpectedRefusal(raw, bpre, bpost) ==
    \/ Shadowing(raw, bpre) # {}
    \/ \E i \in ToPre(raw, bpost) :
          /\ HasSeparator(raw[i][1])
          /\ RootText(raw[i][1]) \notin
                DOMAIN bpre.decl \cup {raw[j][1] : j \in ToPre(raw, bpost)}

\* The overrides addressed to post field f: f itself, and f__sub
SubKeysFor(raw, f) ==
    {i \in PlainOverrides(raw) :
        /\ HasSeparator(raw[i][1])
        /\ RootText(raw[i][1]) = f}

\* C9: every override that is not a post-declaration lands in exactly one
\* set of the call. If its root names a post field of the base set or of the
\* call, it is deep context root__k of the post set and the pre set has
\* nothing of it; otherwise it is an entry of the pre set and the post set
\* has nothing of it; both sets are otherwise the base sets. The hook of a
\* post field f then receives an override f=v as its value with did_extract
\* true, and an override f__sub=v as extra sub.
C9_OverridesRouted ==
    /\ [][BuildStarts =>
            /\ steps' = <<>> <=> ExpectedRefusal(hist'.raw, base_pre, base_post)
            /\ steps' # <<>> =>
                  /\ as_dict(steps'[1].pre, heap') =
                        ExpectedPre(hist'.raw, base_pre, base_post, heap)
                  /\ as_dict(steps'[1].post, heap') =
                        ExpectedPost(hist'.raw, base_pre, base_post, heap)]_vars
    /\ [](\A st \in AllSteps : \A n \in DOMAIN st.hooks :
             /\ \A i \in PlainOverrides(hist.raw) :
                   hist.raw[i][1] = st.hooks[n].name =>
                      /\ st.hooks[n].did_extract
                      /\ st.hooks[n].value = hist.raw[i][2]
             /\ \A i \in SubKeysFor(hist.raw, st.hooks[n].name) :
                   LET sub == SubSeq(hist.raw[i][1], Len(st.hooks[n].name) + 3,
                                     Len(hist.raw[i][1]))
                   IN /\ sub \in DOMAIN st.hooks[n].extra
                      /\ st.hooks[n].extra[sub] = hist.raw[i][2])

\* C9 witness: build(p=7, p__x=7) on a factory with the post field p
\* returned; the hook of p was called with 7 as supplied value and x=7
C9_Witness ==
    /\ hist.raw = << <<kp, Lit(7)>>, <<kp__x, Lit(7)>> >>
    /\ hist.last.phase = "done"
    /\ Len(hist.last.hooks) = 1
    /\ hist.last.hooks[1] =
          HookCall(kp, [value |-> Lit(7), did_extract |-> TRUE,
                        extra |-> (kx :> Lit(7))], <<>>, <<>>)
    /\ kp \notin DOMAIN hist.last.attributes

\* The '__sequence' value given with the overrides, None when there is none
PinOf(raw) == IF kSEQ \in KeysOf(raw) THEN ValueIn(raw, kSEQ) ELSE NoneVal

\* C10: the sequence of a build is force_sequence if that is not None, else
\* the '__sequence' override if that is not None, else what next_sequence()
\* returns; 0 is a given value at both levels; the factory's counter advances
\* in the third case only, and not when the call is refused; the
\* '__sequence' key is in no set of the call and does not make parsing
\* refuse the call.
C10_SequencePriority ==
    [][BuildStarts =>
          /\ steps' = <<>> <=> ExpectedRefusal(hist'.raw, base_pre, base_post)
          /\ steps' = <<>> =>
                /\ seqCounter' = seqCounter
                /\ hist'.seqCalls = hist.seqCalls
          /\ steps' # <<>> =>
                /\ steps'[1].pin = PinOf(hist'.raw)
                /\ steps'[1].sequence =
                      IF steps'[1].force # NoneVal THEN steps'[1].force
                      ELSE IF PinOf(hist'.raw) # NoneVal THEN PinOf(hist'.raw)
                      ELSE Lit(seqCounter)
                /\ seqCounter' =
                      IF steps'[1].force = NoneVal /\ PinOf(hist'.raw) = NoneVal
                      THEN seqCounter + 1 ELSE seqCounter
                /\ hist'.seqCalls - hist.seqCalls = seqCounter' - seqCounter
                /\ kSEQ \notin KeysOf(steps'[1].extras)
                /\ kSEQ \notin DOMAIN as_dict(steps'[1].pre, heap')
                /\ kSEQ \notin DOMAIN as_dict(steps'[1].post, heap')
                /\ <<>> \notin DOMAIN steps'[1].pre.ctx]_vars

\* C10 witness: after a build that took its number from next_sequence(), a
\* build pinned to 0 runs with sequence 0 and the counter where it was
C10_Witness ==
    /\ hist.nbuilds = 2
    /\ hist.seqCalls = 1
    /\ seqCounter = 1
    /\ steps # <<>>
    /\ Top.force = NoneVal
    /\ Top.pin = Lit(0)
    /\ Top.sequence = Lit(0)
    /\ hist.raw = << <<ka, Lit(7)>>, <<kSEQ, Lit(0)>> >>
    /\ Top.phase = "post"

----------------------------------------------------------------------------
(* Properties of the order of a build call *)

\* The positions of the events e in the log of a build call
PositionsOf(st, e) == {i \in DOMAIN st.log : st.log[i].e = e}

\* The names of the events e in the log of a build call, in order
RECURSIVE NamesOf(_, _)
NamesOf(log, e) ==
    IF log = <<>> THEN <<>>
    ELSE IF log[1].e = e THEN <<log[1].name>> \o NamesOf(Tail(log), e)
         ELSE NamesOf(Tail(log), e)

\* C12: in every build call, all pre fields are resolved before
\* prepare_arguments, which is followed by instantiate, then every post hook
\* is called exactly once, in ascending creation-index order, and then
\* use_postgeneration_results is called once, last, with one result per
\* post-declaration name; no field is resolved once the hooks run.
C12_BuildOrder ==
    \A st \in AllSteps :
        LET attrs == PositionsOf(st, "attribute")
            prep == PositionsOf(st, "prepare_arguments")
            inst == PositionsOf(st, "instantiate")
            hooks == PositionsOf(st, "hook")
            use == PositionsOf(st, "use_postgeneration_results")
            hookNames == NamesOf(st.log, "hook")
        IN /\ Cardinality(prep) <= 1
           /\ Cardinality(inst) <= 1
           /\ Cardinality(use) <= 1
           /\ \A p \in prep :
                 /\ \A i \in attrs : i < p
                 /\ {st.log[i].name : i \in attrs} = DOMAIN st.pre.decl
                 /\ inst = {p + 1} \/ (inst = {} /\ p = Len(st.log))
           /\ \A i \in inst : prep = {i - 1}
           /\ \A h \in hooks : \E i \in inst : i < h
           /\ NoDuplicates(hookNames)
           /\ Range(hookNames) \subseteq DOMAIN st.post.decl
           /\ Ascending(hookNames, st.post, postCounter)
           /\ \A u \in use :
                 /\ u = Len(st.log)
                 /\ inst # {}
                 /\ Range(hookNames) = DOMAIN st.post.decl
                 /\ DOMAIN st.results = DOMAIN st.post.decl
           /\ (st.phase = "done") = (use # {})
           /\ st.phase \in {"post", "done"} => st.attributes = st.prepared

\* A build call that ran two hooks whose creation order is not the order of
\* the post set's dict
C12_Witness ==
    /\ hist.last.phase = "done"
    /\ hist.last.post.order = <<kq, kp>>
    /\ hist.last.log = <<Event("attribute", ka), Event("attribute", kb),
                         Event("attribute", kc),
                         Event("prepare_arguments", <<>>),
                         Event("instantiate", <<>>),
                         Event("hook", kp), Event("hook", kq),
                         Event("use_postgeneration_results", <<>>)>>
    /\ DOMAIN hist.last.results = {kp, kq}

\* C18: once resolve has returned, the attribute map of the step has exactly
\* the field names of the pre set, each with the value the Resolver cached for
\* it (the literal itself for a plain literal); prepare_arguments is called
\* with this map and not before it is complete, and the Resolver, with its
\* cache, stays with the step.
C18_AttributesMaterialized ==
    \A st \in AllSteps :
        /\ st.phase \in {"post", "done"} =>
              /\ DOMAIN st.attributes = DOMAIN st.pre.decl
              /\ DOMAIN st.values = DOMAIN st.pre.decl
              /\ st.pending = <<>>
              /\ \A f \in DOMAIN st.attributes :
                    /\ st.attributes[f] = st.values[f]
                    /\ ~IsBaseDeclaration(st.pre.decl[f]) =>
                          st.attributes[f] = st.pre.decl[f]
                    /\ IsBaseDeclaration(st.pre.decl[f]) => st.evals[f] >= 1
              /\ st.prepared = st.attributes
              /\ PositionsOf(st, "prepare_arguments") # {}
        /\ st.phase \in {"resolve", "failed"} =>
              PositionsOf(st, "prepare_arguments") = {}

\* A build call with a literal override next to two evaluated fields
C18_Witness ==
    /\ hist.last.phase = "done"
    /\ hist.raw = << <<kb, Lit(7)>> >>
    /\ hist.last.prepared = (ka :> Val("val", 1, 0, <<>>, FALSE, <<7, 3>>))
                            @@ (kb :> Lit(7))
                            @@ (kc :> Val("val", 3, 0, <<>>, FALSE, <<>>))
    /\ hist.last.values = hist.last.prepared

\* The field names resolve has stored so far, in order
Pulled(st) == NamesOf(st.log, "attribute")

Asked(st) ==
    Range(Pulled(st)) \cup (IF st.todo = <<>> THEN {} ELSE {Head(st.todo)})

\* The evaluation of f has just completed in step i
Completes(i, f) ==
    /\ i \in DOMAIN steps
    /\ i \in DOMAIN steps'
    /\ f \notin DOMAIN steps[i].values
    /\ f \in DOMAIN steps'[i].values
    /\ IsBaseDeclaration(steps[i].pre.decl[f])

----------------------------------------------------------------------------
(* Properties of nested builds *)

\* A build call with the nested build calls made under it
RECURSIVE Family(_)
Family(st) == {st} \cup UNION {Family(st.kids[i]) : i \in DOMAIN st.kids}

\* Every build call of the run that is still known
EveryStep == UNION {Family(st) : st \in AllSteps}

\* The build call got as far as the choice of its sequence
Sequenced(st) == st.sequence # NoneVal

\* A build call has just created its BuildStep
StepCreated == Len(steps') = Len(steps) + 1

\* C11 as stated, second half: a build call with __sequence = k pinned has
\* the sequence k.
C11_PinnedIsExact ==
    \A st \in EveryStep :
        (Sequenced(st) /\ st.pin # NoneVal) => st.sequence = st.pin

\* C11, amended: over root and nested build calls of one factory, a build
\* call with neither a forced nor a pinned sequence gets a sequence greater
\* than that of every earlier such call, and a build call with __sequence = k
\* pinned and no forced sequence has the sequence k.
C11_SequencesIncrease ==
    /\ [][StepCreated =>
            LET new == Last(steps')
            IN (new.factory = "F" /\ new.force = NoneVal /\ new.pin = NoneVal)
               => /\ new.sequence.id > hist.freeMax
                  /\ hist'.freeMax = new.sequence.id]_vars
    /\ [](\A st \in EveryStep :
            (Sequenced(st) /\ st.pin # NoneVal /\ st.force = NoneVal)
            => st.sequence = st.pin)

\* The second root build call: the first took 0 and its nested build 1, this
\* one takes 2 and its nested build has the pinned 5.
C11_Witness ==
    /\ hist.cls = "sub"
    /\ hist.nbuilds = 2
    /\ hist.last.phase = "done"
    /\ hist.last.force = NoneVal /\ hist.last.pin = NoneVal
    /\ hist.last.sequence = Lit(2)
    /\ Len(hist.last.kids) = 1
    /\ hist.last.kids[1].factory = "F"
    /\ hist.last.kids[1].pin = Lit(5)
    /\ hist.last.kids[1].sequence = Lit(5)
    /\ seqCounter = 3

\* The pairs of a build call and a nested build call it made
ParentKid ==
    UNION {{<<p, p.kids[i]>> : i \in DOMAIN p.kids} : p \in EveryStep}
    \cup {<<steps[steps[i].parent], steps[i]>> :
             i \in {j \in DOMAIN steps : steps[j].parent # 0}}

\* The nested build calls made for a field by its SubFactory, Dict or List
FieldKids ==
    {pk \in ParentKid :
        /\ pk[2].via = "field"
        /\ Sequenced(pk[2])
        /\ pk[1].pre.decl[pk[2].field].t = "sub"}

\* C16: a nested build made by a Dict or a List has the sequence of its parent
\* BuildStep, at every depth and whatever __sequence its params pin, and no
\* collection factory's next_sequence() is called; a nested build made by a
\* plain SubFactory gets no forced sequence: it has its own pinned
\* __sequence, or else the next value of the target factory's counter.
C16_CollectionsShareSequence ==
    /\ [](/\ hist.collCalls = 0
          /\ \A pk \in FieldKids :
                LET D == pk[1].pre.decl[pk[2].field]
                IN IF D.FORCE_SEQUENCE
                   THEN /\ pk[2].force = pk[1].sequence
                        /\ pk[2].sequence = pk[1].sequence
                        /\ ~pk[2].called
                   ELSE /\ pk[2].force = NoneVal
                        /\ pk[2].pin # NoneVal => pk[2].sequence = pk[2].pin
                        /\ pk[2].called = (pk[2].pin = NoneVal))
    /\ [][StepCreated =>
            LET new == Last(steps')
            IN (new.via = "field" /\ new.called)
               => /\ new.factory = "F"
                  /\ new.sequence = Lit(seqCounter)
                  /\ seqCounter' = seqCounter + 1]_vars

\* A root build pinned to 2 whose Dict, with __sequence = 5 in its params, and
\* the Dict inside it have the sequence 2 as well
C16_Witness ==
    /\ hist.cls = "dict"
    /\ hist.last.phase = "done"
    /\ hist.raw = << <<kSEQ, Lit(2)>>, <<join(kd, kSEQ), Lit(5)>> >>
    /\ hist.last.sequence = Lit(2)
    /\ Len(hist.last.kids) = 2
    /\ hist.last.kids[1].factory = "DictFactory"
    /\ hist.last.kids[1].pin = Lit(5)
    /\ hist.last.kids[1].sequence = Lit(2)
    /\ Len(hist.last.kids[1].kids) = 1
    /\ hist.last.kids[1].kids[1].sequence = Lit(2)
    /\ hist.last.kids[2].factory = "ListFactory"
    /\ hist.last.kids[2].sequence = Lit(2)
    /\ hist.collCalls = 0

\* The steps with a nested build call, made for one of their fields, running
NestingSteps == {steps[i].parent : i \in {j \in DOMAIN steps : steps[j].via = "field"}}

\* The innermost evaluate() is a SelfAttribute('..n') of a build call nested
\* under a field, about to read n on its parent
ReadsParent(n) ==
    /\ Running
    /\ frames # <<>>
    /\ Top.pending # <<>>
    /\ Last(frames).step = Len(steps)
    /\ Top.via = "field"
    /\ Last(frames).decl.t = "self"
    /\ Depth(Last(frames).decl) = 2
    /\ Last(frames).pos = 1
    /\ Last(frames).decl.deps = <<n>>

ExceptionInBuild ==
    /\ ctl.mode = "raise"
    /\ steps # <<>>
    /\ Top.pending = <<>> \/ (frames # <<>> /\ Last(frames).pulled
                              /\ Last(frames).step = Len(steps))

\* The build call of the innermost step ends with the exception: its step is
\* dropped, and the exception is the outcome of a root call or goes on in the
\* caller of a nested call.
BuildRaises ==
    /\ Len(steps') = Len(steps) - 1
    /\ IF Top.via = "root"
       THEN /\ steps' = <<>>
            /\ frames' = <<>>
            /\ hist'.last.call = Top.call
            /\ hist'.last.phase = "failed"
            /\ hist'.last.err = ctl.err
       ELSE /\ ctl' = ctl
            /\ Last(steps'[Top.parent].kids).call = Top.call
            /\ Last(steps'[Top.parent].kids).phase = "failed"
            /\ Last(steps'[Top.parent].kids).err = ctl.err

\* C17: an error of the parsing or of the resolution of a pre field ends the
\* build call: it raises to its caller, and prepare_arguments, instantiate,
\* the post hooks and use_postgeneration_results are not called for it and no
\* instance is returned; the failure of a nested build call is the failure of
\* the call that made it; a post hook that raises ends the build call without
\* use_postgeneration_results and without an instance for the caller.
C17_ErrorsAreFatal ==
    /\ [][ExceptionInBuild => BuildRaises]_vars
    /\ [][ctl.mode = "raise" =>
            \A i \in DOMAIN steps' :
               /\ i \in DOMAIN steps
               /\ steps'[i].log = steps[i].log
               /\ steps'[i].results = steps[i].results
               /\ steps'[i].attributes = steps[i].attributes]_vars
    /\ [](\A st \in EveryStep :
            /\ st.phase = "failed" =>
                  /\ st.err # NoBuildError
                  /\ PositionsOf(st, "use_postgeneration_results") = {}
                  /\ PositionsOf(st, "instantiate") = {} =>
                        /\ st.instance = NoneVal
                        /\ PositionsOf(st, "prepare_arguments") = {}
                        /\ PositionsOf(st, "hook") = {}
                        /\ st.results = EmptyDict
            /\ st.phase = "done" => \A i \in DOMAIN st.kids : st.kids[i].phase = "done"
            /\ \A i \in DOMAIN st.kids :
                  st.kids[i].phase = "failed" =>
                     /\ i = Len(st.kids)
                     /\ st.kids[i].field \notin DOMAIN st.values
                     /\ st.kids[i].field \notin DOMAIN st.results
                     /\ \/ st.phase = "failed" /\ st.err = st.kids[i].err
                        \/ /\ st \in Range(steps)
                           /\ ctl.mode = "raise"
                           /\ ctl.err = st.kids[i].err)

\* The nested build call of s failed with the CyclicDefinitionError of its
\* read of the parent's s, and so did the root call; neither was instantiated
C17_Witness ==
    /\ hist.cls = "sub"
    /\ hist.last.phase = "failed"
    /\ hist.last.err.type = "CyclicDefinitionError"
    /\ hist.last.err.name = ks
    /\ Len(hist.last.kids) = 1
    /\ hist.last.kids[1].phase = "failed"
    /\ hist.last.kids[1].err = hist.last.err
    /\ hist.last.kids[1].log = <<Event("attribute", ka)>>
    /\ Pulled(hist.last) = <<ka, kb>>
    /\ hist.last.instance = NoneVal
    /\ steps = <<>>

----------------------------------------------------------------------------
(* Properties of the post hooks *)

\* The calls of the RelatedFactory hooks of a build call, as indexes of hooks
RelatedCalls(st) ==
    {i \in DOMAIN st.hooks : st.post.decl[st.hooks[i].name].t = "related"}

\* The nested build calls that the post hook name of st started
HookKids(st, name) ==
    {pk[2] : pk \in {qk \in ParentKid :
                        /\ qk[1] = st
                        /\ qk[2].via = "hook"
                        /\ qk[2].field = name}}

\* The overrides a nested builder was made with: what its constructor kept
\* and the __sequence it popped
OverridesOf(st) ==
    [k \in KeysOf(st.extras) |-> ValueInSeq(st.extras, k)]
    @@ (IF st.pin # NoneVal THEN (kSEQ :> st.pin) ELSE EmptyDict)

\* The static defaults overridden by the extras, and the instance under the
\* back-reference name over both
RelatedOverrides(decl, extra, instance) ==
    [k \in KeysOf(decl.defaults) \cup DOMAIN extra
           \cup (IF decl.name # <<>> THEN {decl.name} ELSE {}) |->
        IF decl.name # <<>> /\ k = decl.name THEN instance
        ELSE IF k \in DOMAIN extra THEN extra[k]
        ELSE ValueInSeq(decl.defaults, k)]

\* A step of the run in which the build call n called a RelatedFactory hook
RelatedCalled(n) ==
    /\ n \in DOMAIN steps
    /\ n \in DOMAIN steps'
    /\ steps'[n].call = steps[n].call
    /\ Len(steps'[n].hooks) = Len(steps[n].hooks) + 1
    /\ Len(steps'[n].hooks) \in RelatedCalls(steps'[n])

\* C13: a RelatedFactory hook that got a value for its field (None included)
\* returns that value and makes no nested build call, and the sequence
\* counter stays; one that got none makes exactly one nested build call, with
\* the static defaults overridden by the extras and, when the back-reference
\* name is not empty, the instance under that name over both; the result of
\* the hook is the instance that call built.
C13_RelatedFactoryCall ==
    /\ [](\A st \in EveryStep : \A i \in RelatedCalls(st) :
            IF st.hooks[i].did_extract
            THEN /\ HookKids(st, st.hooks[i].name) = {}
                 /\ st.hooks[i].name \in DOMAIN st.results
                 /\ st.results[st.hooks[i].name] = st.hooks[i].value
            ELSE /\ Cardinality(HookKids(st, st.hooks[i].name)) = 1
                 /\ \A kid \in HookKids(st, st.hooks[i].name) :
                       /\ kid.factory = st.post.decl[st.hooks[i].name].factory
                       /\ kid.force = NoneVal
                       /\ OverridesOf(kid) =
                             RelatedOverrides(st.post.decl[st.hooks[i].name],
                                              st.hooks[i].extra, st.instance)
                       /\ kid.phase = "done" =>
                             /\ st.hooks[i].name \in DOMAIN st.results
                             /\ st.results[st.hooks[i].name] = kid.instance
                       /\ kid.phase # "done" =>
                             st.hooks[i].name \notin DOMAIN st.results)
    /\ [][\A n \in DOMAIN steps :
            RelatedCalled(n) =>
               IF Last(steps'[n].hooks).did_extract
               THEN /\ seqCounter' = seqCounter
                    /\ hist'.ncalls = hist.ncalls
                    /\ Len(steps') = Len(steps)
                    /\ steps'[n].kids = steps[n].kids
               ELSE /\ hist'.ncalls = hist.ncalls + 1
                    /\ \/ /\ Len(steps') = Len(steps) + 1
                          /\ Last(steps').parent = n
                          /\ Last(steps').call = hist'.ncalls
                       \/ /\ Len(steps') = Len(steps)
                          /\ Len(steps'[n].kids) = Len(steps[n].kids) + 1
                          /\ Last(steps'[n].kids).phase = "failed"
                          /\ Last(steps'[n].kids).call = hist'.ncalls]_vars

\* r got no value but the extra b = 7: its nested build call was made with
\* the instance under the back-reference name b, and that call, which got
\* r = None and q = None from the defaults, made no build call of its own;
\* the hook q made a second nested call with its defaults alone.
C13_Witness ==
    /\ hist.cls = "related"
    /\ hist.raw = << <<join(kr, kb), Lit(7)>> >>
    /\ hist.last.phase = "done"
    /\ Len(hist.last.kids) = 2
    /\ hist.last.kids[1].field = kr
    /\ hist.last.kids[1].phase = "done"
    /\ OverridesOf(hist.last.kids[1]) =
          (kr :> NoneVal) @@ (kq :> NoneVal) @@ (kb :> hist.last.instance)
          @@ (ka :> Lit(3))
    /\ hist.last.kids[1].kids = <<>>
    /\ hist.last.kids[1].results[kr] = NoneVal
    /\ hist.last.kids[1].attributes[kb] = hist.last.instance
    /\ hist.last.results[kr] = hist.last.kids[1].instance
    /\ hist.last.kids[2].field = kq
    /\ OverridesOf(hist.last.kids[2]) = (kr :> NoneVal) @@ (kq :> NoneVal)
    /\ hist.last.results[kq] = hist.last.kids[2].instance
    /\ hist.last.instance # hist.last.kids[1].instance

\* The root build call of the run that is in progress or was the last to end
CurrentRoot == IF steps # <<>> THEN steps[1] ELSE hist.last

\* The keys of the deep context given to the method hooks
MethodKeys == {kx, ky}

\* The deep-context extras that the overrides of the root call hold for name
SuppliedExtras(name) ==
    [k \in {q \in MethodKeys : join(name, q) \in KeysOf(hist.raw)} |->
        ValueInSeq(hist.raw, join(name, k))]

\* The post hooks that were called and did not return
HooksRaised(st) == Range(NamesOf(st.log, "hook")) \ {st.hooks[i].name : i \in DOMAIN st.hooks}

\* C14: a PostGenerationMethodCall calls the method with its static
\* arguments when no value was supplied, with the one argument (value) when a
\* value was supplied and it has at most one static argument, and with the
\* items of the value when it has two or more; the keyword arguments are the
\* static ones overridden by the deep-context extras; the declaration keeps
\* its static arguments.
C14_MethodCallArguments ==
    hist.cls = "method" =>
       /\ \A i \in DOMAIN CurrentRoot.hooks :
             \E name \in {CurrentRoot.hooks[i].name} :
             \E decl \in {ValueInSeq(NestMethod, name)} :
                /\ CurrentRoot.post.decl[name] = decl
                /\ base_post.decl[name] = decl
                /\ CurrentRoot.hooks[i].did_extract = (name \in KeysOf(hist.raw))
                /\ CurrentRoot.hooks[i].args =
                      IF name \notin KeysOf(hist.raw)
                      THEN decl.method_args
                      ELSE IF Len(decl.method_args) <= 1
                      THEN <<ValueInSeq(hist.raw, name)>>
                      ELSE [j \in DOMAIN ValueInSeq(hist.raw, name).args |->
                              Lit(ValueInSeq(hist.raw, name).args[j])]
                /\ AsMapping(CurrentRoot.hooks[i].kwargs) =
                      SuppliedExtras(name) @@ AsMapping(decl.method_kwargs)
       /\ \A name \in HooksRaised(CurrentRoot) :
             /\ name \in KeysOf(hist.raw)
             /\ Len(ValueInSeq(NestMethod, name).method_args) >= 2
             /\ ValueInSeq(hist.raw, name).t # "tuple"
             /\ \/ ctl.mode = "raise" /\ ctl.err.type = "TypeError"
                \/ CurrentRoot.phase = "failed" /\ CurrentRoot.err.type = "TypeError"

\* n, which has two static arguments, got the value (8, 9) and called the
\* method with 8 and 9; m and o, which got no value, called it with their
\* static arguments, m with its keyword x
C14_Witness ==
    /\ hist.cls = "method"
    /\ hist.raw = << <<kn, Tuple(<<8, 9>>)>> >>
    /\ hist.last.phase = "done"
    /\ [i \in DOMAIN hist.last.hooks |-> hist.last.hooks[i].name] = <<km, kn, ko>>
    /\ hist.last.hooks[1].args = <<Lit(1)>>
    /\ hist.last.hooks[1].kwargs = << <<kx, Lit(1)>> >>
    /\ hist.last.hooks[2].args = <<Lit(8), Lit(9)>>
    /\ hist.last.hooks[2].kwargs = <<>>
    /\ hist.last.hooks[3].args = <<>>

----------------------------------------------------------------------------
(* Properties of Maybe and Trait *)

\* The fields of a build call that are declared with a Maybe
MaybeFields(st) == {f \in DOMAIN st.pre.decl : st.pre.decl[f].t = "maybe"}

\* What getattr(instance, decider, None) gave the Maybe of a resolved field:
\* the cached value of the decider, None when it has none
DeciderSeen(st, f) ==
    IF st.pre.decl[f].deps[1] \in DOMAIN st.values
    THEN st.values[st.pre.decl[f].deps[1]]
    ELSE NoneVal

\* The value of a branch: a LazyAttribute computes it from the fields it
\* reads on the same Resolver, a plain value is the value
BranchValue(st, target) ==
    IF target.t = "lazy"
    THEN Val("val", target.id, 0, <<>>, FALSE,
             [i \in DOMAIN target.deps |-> st.values[target.deps[i]].id])
    ELSE target

\* The branch that the value seen for the decider selects
BranchTaken(st, f) ==
    IF DeciderSeen(st, f).t = "none" \/ DeciderSeen(st, f) = Lit(0)
    THEN st.pre.decl[f].no
    ELSE st.pre.decl[f].yes

\* The deep context that the overrides of the root call hold for the field f
FieldExtras(f) ==
    [k \in {q \in {ka, kb, kx} : join(f, q) \in KeysOf(hist.raw)} |->
        ValueInSeq(hist.raw, join(f, k))]

\* C15: the value of a field declared with a Maybe is the value of its yes
\* branch when the value the Resolver has for the decider is truthy, and of
\* its no branch (None when there is none) otherwise; a SubFactory branch
\* builds its value in a nested call of the same step with the field's deep
\* context; the decider is evaluated at most once and cached; the Maybe that
\* a Trait at the field t makes for an overridden field is decided by t, with
\* the override as the yes branch and the field's former declaration (None
\* when it had none) as the no branch.
C15_MaybeSwitch ==
    /\ \A st \in EveryStep : \A f \in MaybeFields(st) \cap DOMAIN st.values :
          /\ IF BranchTaken(st, f).t = "sub"
             THEN \E i \in DOMAIN st.kids :
                     /\ st.kids[i].field = f
                     /\ st.kids[i].via = "field"
                     /\ st.kids[i].phase = "done"
                     /\ st.kids[i].factory = BranchTaken(st, f).factory
                     /\ st.values[f] = st.kids[i].instance
                     /\ st = CurrentRoot =>
                           OverridesOf(st.kids[i]) =
                              FieldExtras(f) @@ AsMapping(BranchTaken(st, f).defaults)
             ELSE /\ st.values[f] = BranchValue(st, BranchTaken(st, f))
                  /\ \A i \in DOMAIN st.kids : st.kids[i].field # f
          /\ \E dec \in {st.pre.decl[f].deps[1]} :
                dec \in DOMAIN st.pre.decl =>
                   /\ st.fails[dec] = 0 => dec \in DOMAIN st.values
                   /\ st.evals[dec] <= 1 + st.fails[dec]
                   /\ dec \notin DOMAIN st.values => st.phase \in {"resolve", "failed"}
    /\ hist.cls = "maybe" =>
          \A i \in DOMAIN TraitOverrides :
             \E f \in {TraitOverrides[i][1]} :
                /\ base_pre.decl[f].t = "maybe"
                /\ base_pre.decl[f].deps = <<kt>>
                /\ base_pre.decl[f].yes = TraitOverrides[i][2]
                /\ base_pre.decl[f].no =
                      IF f \in KeysOf(MaybeDeclarations)
                      THEN ValueInSeq(MaybeDeclarations, f)
                      ELSE NoneVal

\* With t = 1 and x = 1 the switches took their yes branches: a is the
\* trait's 9, c and z the values their LazyAttribute branches computed from
\* b, and s the instance of a nested call that got x = 0 from the SubFactory
\* and b = 7 from the deep context of s, and took its no branches
C15_Witness ==
    /\ hist.cls = "maybe"
    /\ hist.raw = << <<kt, Lit(1)>>, <<kx, Lit(1)>>, <<join(ks, kb), Lit(7)>> >>
    /\ hist.last.phase = "done"
    /\ hist.last.attributes[ka] = Lit(9)
    /\ hist.last.attributes[kc] = Val("val", 2, 0, <<>>, FALSE, <<1>>)
    /\ hist.last.attributes[kz] = Val("val", 4, 0, <<>>, FALSE, <<1>>)
    /\ Len(hist.last.kids) = 1
    /\ hist.last.attributes[ks] = hist.last.kids[1].instance
    /\ OverridesOf(hist.last.kids[1]) = (kx :> Lit(0)) @@ (kb :> Lit(7))
    /\ hist.last.kids[1].attributes[kb] = Lit(7)
    /\ hist.last.kids[1].attributes[kz] = Lit(2)
    /\ hist.last.kids[1].attributes[ks] = NoneVal
    /\ hist.last.kids[1].attributes[kc] = NoneVal
    /\ hist.last.kids[1].kids = <<>>

----------------------------------------------------------------------------
(* Properties of the chain of build steps *)

\* The ancestors of the step at index i, the parent first
RECURSIVE AncestorsOf(_, _)
AncestorsOf(S, i) ==
    IF S[i].parent = 0 THEN <<>> ELSE <<S[i].parent>> \o AncestorsOf(S, S[i].parent)

\* The step whose recurse() made the build call that has just started: the
\* step of the evaluate() in progress, or the step that runs its post hooks
Recursing ==
    IF Last(steps').via = "hook" THEN Len(steps) ELSE Last(frames).step

\* C21: the build call made by step.recurse has step as its parent step and
\* a StepBuilder with the strategy of the step's builder; the chain of a step
\* is its own stub followed by the stubs of its ancestors up to the root
\* call, so it has one entry more than the step has ancestors; factory_parent
\* is the stub of the parent step, chain[1], or None for a root call.
C21_ChainOfSteps ==
    /\ [](\A i \in DOMAIN steps :
            /\ steps[i].parent \in 0 .. (i - 1)
            /\ (steps[i].parent = 0) = (steps[i].via = "root")
            /\ Chain(steps, i, 0) = i
            /\ \A n \in 0 .. Len(steps) :
                  Chain(steps, i, n) =
                     IF n <= Len(AncestorsOf(steps, i))
                     THEN (<<i>> \o AncestorsOf(steps, i))[n + 1]
                     ELSE 0
            /\ steps[Chain(steps, i, Len(AncestorsOf(steps, i)))].via = "root"
            /\ factory_parent(steps, i) =
                  IF steps[i].parent # 0 THEN Chain(steps, i, 1) ELSE 0
            /\ steps[i].parent # 0 =>
                  steps[i].strategy = steps[steps[i].parent].strategy)
    /\ [](\A pk \in ParentKid : pk[2].strategy = pk[1].strategy)
    /\ [][(StepCreated /\ steps # <<>>) =>
             /\ Last(steps').parent = Recursing
             /\ Last(steps').strategy = steps[Recursing].strategy
             /\ Last(steps').via # "root"
             /\ \A i \in DOMAIN steps : steps'[i].parent = steps[i].parent]_vars
    /\ [][(StepCreated /\ steps = <<>>) =>
             /\ Last(steps').parent = 0
             /\ Last(steps').strategy = hist.strategy]_vars

\* The SubFactory of s in the nested call of s has made a third build call,
\* all three with the strategy create: its chain is itself, its parent and
\* the root call
C21_Witness ==
    /\ hist.cls = "sub"
    /\ hist.strategy = "create"
    /\ Len(steps) = 3
    /\ steps[3].parent = 2
    /\ steps[2].parent = 1
    /\ steps[1].parent = 0
    /\ steps[3].strategy = "create"
    /\ AncestorsOf(steps, 3) = <<2, 1>>
    /\ Chain(steps, 3, 2) = 1
    /\ Chain(steps, 3, 3) = 0
    /\ factory_parent(steps, 3) = 2
    /\ factory_parent(steps, 1) = 0
    /\ steps[3].field = ks
    /\ steps[2].pending = <<ks>>

----------------------------------------------------------------------------
(* Properties of SelfAttribute *)

\* The evaluate() calls of SelfAttribute declarations that are in progress
SelfFrames == {i \in DOMAIN frames : frames[i].decl.t = "self"}

\* The fields of a build call whose SelfAttribute has a default and gave it
Defaulted(st) ==
    {f \in DOMAIN st.values \cap DOMAIN st.pre.decl :
        /\ st.pre.decl[f].t = "self"
        /\ st.pre.decl[f].dflt
        /\ st.values[f] = DefaultValue}

\* The attribute is there on tgt with the default as its value
HoldsDefault(tgt, name) == name \in DOMAIN tgt.values /\ tgt.values[name] = DefaultValue

\* A SelfAttribute reads on its own Resolver with at most one leading dot,
\* and k - 1 parent links up with k >= 2
SelfReadsOnChain ==
    \A i \in SelfFrames :
       \E k \in {Depth(frames[i].decl)} :
          /\ k <= 1 => ReadTarget(steps, frames[i]).step = frames[i].step
          /\ (k >= 2 /\ k - 1 <= Len(AncestorsOf(steps, frames[i].step))) =>
                ReadTarget(steps, frames[i]).step =
                   AncestorsOf(steps, frames[i].step)[k - 1]
          /\ (k >= 2 /\ k - 1 > Len(AncestorsOf(steps, frames[i].step))) =>
                ReadTarget(steps, frames[i]).err.type = "IndexError"

\* The default is the value only of a SelfAttribute whose attribute is not
\* declared on its target (or has the default as its value there)
DefaultOnlyWhenMissing ==
    /\ \A st \in EveryStep : \A f \in Defaulted(st) :
          Depth(st.pre.decl[f]) <= 1 =>
             \/ st.pre.decl[f].deps[1] \notin DOMAIN st.pre.decl
             \/ HoldsDefault(st, st.pre.decl[f].deps[1])
    /\ \A pk \in ParentKid : \A f \in Defaulted(pk[2]) :
          Depth(pk[2].pre.decl[f]) = 2 =>
             \/ pk[2].pre.decl[f].deps[1] \notin DOMAIN pk[1].pre.decl
             \/ HoldsDefault(pk[1], pk[2].pre.decl[f].deps[1])

\* C22: a SelfAttribute with k leading dots reads its attribute on its own
\* Resolver when k is 0 or 1 and on step.chain[k - 1] when k >= 2, and its
\* default is returned only when the attribute is missing on that target.
C22_SelfAttributeReads == SelfReadsOnChain /\ DefaultOnlyWhenMissing

----------------------------------------------------------------------------
(* Properties of the attributes of a Resolver *)

\* The build call at index i goes on in the step
SameCall(i) ==
    /\ i \in DOMAIN steps
    /\ i \in DOMAIN steps'
    /\ steps'[i].call = steps[i].call

\* The step stores the value v for the name n in the cache of the Resolver of
\* the build call i and leaves its other entries alone
Caches(i, n, v) ==
    /\ n \notin DOMAIN steps[i].values
    /\ n \in DOMAIN steps'[i].values
    /\ steps'[i].values = (n :> v) @@ steps[i].values

\* The read that the innermost evaluate() is about to make is of a name that
\* its Resolver neither declares nor holds
ReadsUnknown ==
    /\ Running
    /\ frames # <<>>
    /\ Top.pending # <<>>
    /\ Last(frames).pos <= Len(Last(frames).decl.deps)
    /\ Last(frames).decl.deps[Last(frames).pos] \notin
          DOMAIN steps[Last(frames).step].pre.decl
                 \cup DOMAIN steps[Last(frames).step].values
                 \cup Range(steps[Last(frames).step].pending)

\* C23: an attempt to set an attribute on a Resolver raises AttributeError
\* and leaves the Resolver as it was; the cache gets a value only for a
\* declared name that is read, the literal itself or the result of the
\* evaluate() call that ends; the read of an undeclared name raises the
\* AttributeError of the unknown name and leaves the cache as it was.
C23_ResolverIsReadOnly ==
    /\ [](\A i \in DOMAIN steps :
            /\ steps[i].initialized
            /\ steps[i].dict = EmptyDict
            /\ DOMAIN steps[i].values \subseteq DOMAIN steps[i].pre.decl)
    /\ [][hist'.sets # hist.sets =>
             /\ ctl'.mode = "raise"
             /\ ctl'.err \in {SettingError(n) : n \in SetNames}
             /\ steps' = steps
             /\ frames' = frames]_vars
    /\ [][\A i \in DOMAIN steps :
            (SameCall(i) /\ steps'[i].values # steps[i].values) =>
               \E n \in DOMAIN steps[i].pre.decl :
                  /\ Caches(i, n, steps'[i].values[n])
                  /\ IF IsBaseDeclaration(steps[i].pre.decl[n])
                     THEN /\ Running
                          /\ frames # <<>>
                          /\ Last(frames).step = i
                          /\ Last(frames).field = n
                          /\ Last(frames).pos > Len(Last(frames).decl.deps)
                          /\ steps[i].pending # <<>>
                          /\ Last(steps[i].pending) = n
                          /\ steps'[i].pending = Front(steps[i].pending)
                          /\ frames' = Front(frames)
                               \/ /\ Len(frames') = Len(frames) - 1
                                  /\ Last(frames').acc =
                                        Append(frames[Len(frames')].acc,
                                               steps'[i].values[n])
                          /\ ~IsBaseDeclaration(steps'[i].values[n])
                     ELSE steps'[i].values[n] = steps[i].pre.decl[n]]_vars
    /\ [][(ReadsUnknown /\ hist'.sets = hist.sets) =>
             /\ \A i \in DOMAIN steps : SameCall(i) /\ steps'[i].values = steps[i].values
             /\ \/ /\ ctl'.mode = "raise"
                   /\ ctl'.err = BuildError("AttributeError",
                                            Last(frames).decl.deps[Last(frames).pos],
                                            <<>>, NoError)
                   /\ frames' = frames
                \/ /\ Catches(Last(frames).decl, BuildError("AttributeError", <<>>, <<>>,
                                                            NoError))
                   /\ ctl' = ctl
                   /\ Last(frames').acc = <<Caught(Last(frames).decl)>>]_vars

\* The function of b tried to set an attribute after a was cached: the
\* AttributeError of __setattr__ is raised in it, and the Resolver holds a
\* and nothing else, with b still pending
C23_Witness ==
    /\ hist.sets = 1
    /\ ctl.mode = "raise"
    /\ ctl.err = SettingError(ka)
    /\ Len(steps) = 1
    /\ steps[1].values = (ka :> Lit(7))
    /\ steps[1].pending = <<kb>>
    /\ steps[1].dict = EmptyDict
    /\ Len(frames) = 1

----------------------------------------------------------------------------
(* Properties of the creation counters *)

\* No thread is inside a constructor
AllIdle == \A t \in Threads : threads[t].pc = "idle"

\* The creation_counter that a reader finds on the declaration made[i]
IndexOf(i) == CreationCounter(made[i], ClassCounter(FamilyOf(made[i].t)))

\* The declarations of a family whose constructor ran the family's __init__
Indexed(family) ==
    {i \in DOMAIN made : FamilyOf(made[i].t) = family /\ CallsInit(made[i].t)}

\* C24: of two declarations of one family, the one constructed later has the
\* greater creation index, whatever their classes (Maybe and
\* FakePostGenerationDeclaration included), and the construction of a
\* declaration leaves the counter of the other family unchanged.
C24_CreationIndexIncreases ==
    /\ []((locked /\ AllIdle) =>
            \A i, j \in DOMAIN made :
               (i < j /\ FamilyOf(made[i].t) = FamilyOf(made[j].t)) =>
                  IndexOf(i) < IndexOf(j))
    /\ [][\A t \in Threads :
            threads'[t] # threads[t] =>
               /\ threads[t].family = "base" => postCounter' = postCounter
               /\ threads[t].family = "post" => baseCounter' = baseCounter
               /\ threads[t].pc = "idle" =>
                     postCounter' = postCounter /\ baseCounter' = baseCounter]_vars

\* The declarations that ran the __init__ of their family, constructed one
\* after the other, have increasing creation indexes
IndexedIncrease ==
    (locked /\ AllIdle) =>
       \A i, j \in DOMAIN made :
          (i < j /\ FamilyOf(made[i].t) = FamilyOf(made[j].t)
                 /\ CallsInit(made[i].t) /\ CallsInit(made[j].t)) =>
             IndexOf(i) < IndexOf(j)

\* C26: when every construction that assigns an index runs without another
\* thread inside a constructor, N of them in one family give N distinct
\* indexes and advance the counter of the family by N; without that, a
\* counter never exceeds the number of such constructions, and two threads
\* can take the same index and lose an increment (the witness).
C26_AtomicConstructions ==
    \A family \in {"base", "post"} :
       /\ ClassCounter(family) <= Cardinality(Indexed(family))
       /\ \A i \in Indexed(family) : made[i].cc \in 0 .. (Cardinality(Indexed(family)) - 1)
       /\ (locked /\ AllIdle) =>
             /\ \A i, j \in Indexed(family) : made[i].cc = made[j].cc => i = j
             /\ ClassCounter(family) = Cardinality(Indexed(family))

\* Two threads constructed a LazyAttribute each with no synchronization:
\* both have the index 0, and the counter was advanced once
C26_Witness ==
    /\ ~locked
    /\ AllIdle
    /\ Len(made) = 2
    /\ made[1].t = "lazy"
    /\ made[2].t = "lazy"
    /\ made[1].cc = 0
    /\ made[2].cc = 0
    /\ baseCounter = 1

----------------------------------------------------------------------------
(* Properties of the context roots of a DeclarationSet *)

\* Every deep-context root of S is a field of S
RootsAreFields(S) == ExtraContextKeys(S) = {}

\* C25: a set whose most recent update returned normally has every
\* deep-context root among its fields: an update that returns normally leaves
\* the roots of its set among the fields, a copy of a set that has the
\* property has it too, and every other operation keeps the property of each
\* set. No operation removes a field (a copy has the fields of its original),
\* and reading s[key], values() or as_dict() adds no root that is not a
\* field, also for a key that is not a field.
C25_RootsAreFields ==
    [][/\ IF last'.op = "update" /\ last'.target = "s"
          THEN last'.err = NoError => RootsAreFields(s')
          ELSE RootsAreFields(s) => RootsAreFields(s')
       /\ IF last'.op = "update" /\ last'.target = "c"
          THEN last'.err = NoError => RootsAreFields(c')
          ELSE IF last'.op = "copy"
          THEN (RootsAreFields(s) => RootsAreFields(c'))
          ELSE (RootsAreFields(c) => RootsAreFields(c'))
       /\ DOMAIN s.decl \subseteq DOMAIN s'.decl
       /\ IF last'.op = "copy"
          THEN DOMAIN c'.decl = DOMAIN s.decl
          ELSE DOMAIN c.decl \subseteq DOMAIN c'.decl
       /\ last'.op \in {"getitem", "values"}
          => /\ ExtraContextKeys(s') \subseteq ExtraContextKeys(s)
             /\ ExtraContextKeys(c') \subseteq ExtraContextKeys(c)]_vars

\* C25 witness: an update gave s a field with deep context and s was copied;
\* s[b] was then read although b is no field of s, and raised KeyError
C25_Witness ==
    /\ last.op = "getitem"
    /\ last.err = KeyError(kb)
    /\ ka \in DOMAIN s.ctx
    /\ RootsAreFields(s)
    /\ ka \in DOMAIN c.ctx
    /\ RootsAreFields(c)

----------------------------------------------------------------------------
(* Properties of a failed update *)

\* The keys of kvs without separator
FlatKeys(kvs) == {k \in KeysOf(kvs) : ~HasSeparator(k)}

\* What update(kvs), raising, leaves in the set it was called on: every flat
\* entry of kvs is a declaration, every deep entry of kvs is in the context of
\* its root, and the roots that are no fields are those the error names.
KeptOnFailure(S, H, kvs, err) ==
    /\ err.type = "InvalidDeclarationError"
    /\ \A i \in DOMAIN kvs :
          IF HasSeparator(kvs[i][1])
          THEN LET sp == split(kvs[i][1])
               IN /\ sp.root \in DOMAIN S.ctx
                  /\ sp.sub \in DOMAIN H[S.ctx[sp.root]]
                  /\ H[S.ctx[sp.root]][sp.sub] = kvs[i][2]
          ELSE /\ kvs[i][1] \in DOMAIN S.decl
               /\ S.decl[kvs[i][1]] = kvs[i][2]
    /\ ExtraContextKeys(S) # {}
    /\ err.keys = UNION {{join(root, sub) : sub \in DOMAIN H[S.ctx[root]]} :
                            root \in ExtraContextKeys(S)}

\* An update(kvs) on a set left with roots that are no fields raises again
\* when kvs does not declare all of them
RaisesAgain(S, kvs, err) ==
    (ExtraContextKeys(S) \ FlatKeys(kvs)) # {} => err.type = "InvalidDeclarationError"

\* C28: update is not rolled back. When it raises InvalidDeclarationError the
\* set holds every flat key of the call and keeps the offending deep context;
\* an update on a set that holds a root that is no field raises again unless
\* the call declares every such root as a field.
C28_UpdateNotRolledBack ==
    [][/\ (last'.op = "update" /\ last'.target = "s")
          => /\ last'.err # NoError => KeptOnFailure(s', heap', last'.arg, last'.err)
             /\ RaisesAgain(s, last'.arg, last'.err)
       /\ (last'.op = "update" /\ last'.target = "c")
          => /\ last'.err # NoError => KeptOnFailure(c', heap', last'.arg, last'.err)
             /\ RaisesAgain(c, last'.arg, last'.err)]_vars

\* C28 witness: the first update of s raised and the next one, which gave a
\* flat key only, raised again; the flat keys of both calls are declarations
\* of s
C28_Witness ==
    /\ nops = 2
    /\ last.op = "update"
    /\ last.target = "s"
    /\ KeysOf(last.arg) = {kb}
    /\ last.err.type = "InvalidDeclarationError"
    /\ last.err.keys = {ka__b}
    /\ DOMAIN s.decl = {kb}
    /\ DOMAIN s.ctx = {ka}

----------------------------------------------------------------------------
(* Properties of the pending stack of a Resolver *)

\* The fields of the evaluate() calls in progress on the Resolver of the
\* step at index i, outermost first
RECURSIVE Evaluating(_, _)
Evaluating(fr, i) ==
    IF fr = <<>> THEN <<>>
    ELSE IF Last(fr).step = i
    THEN Append(Evaluating(Front(fr), i), Last(fr).field)
    ELSE Evaluating(Front(fr), i)

\* The build calls that ended: the last one the user made and the nested
\* ones recorded by their callers
EndedSteps == {hist.last} \cup UNION {Range(st.kids) : st \in AllSteps}

\* Every evaluate() call made for the field f on the Resolver of st raised
AlwaysRaised(st, f) ==
    /\ f \in DOMAIN st.fails
    /\ st.fails[f] > 0
    /\ st.evals[f] = st.fails[f]
    /\ f \notin Range(st.pending)

\* The pending stack at every moment: no duplicate, no cached name, and
\* exactly the fields whose evaluate() is in progress on the Resolver, in the
\* order they were pushed; it is empty once the build call ended. A field
\* whose evaluations all raised is not cached, and reading it evaluates it
\* again.
PendingIsTheCallStack ==
    /\ \A i \in DOMAIN steps :
          /\ NoDuplicates(steps[i].pending)
          /\ Range(steps[i].pending) \cap DOMAIN steps[i].values = {}
          /\ steps[i].pending = Evaluating(frames, i)
          /\ \A f \in DOMAIN steps[i].fails :
                AlwaysRaised(steps[i], f)
                => /\ f \notin DOMAIN steps[i].values
                   /\ GetAttr(steps[i], heap, f).kind = "eval"
    /\ \A st \in EndedSteps :
          /\ st.pending = <<>>
          /\ \A f \in DOMAIN st.fails :
                AlwaysRaised(st, f) => f \notin DOMAIN st.values

\* The step pushes the field n on the pending stack of the build call i and
\* starts its evaluate()
Pushes(i, n) ==
    /\ steps'[i].pending = Append(steps[i].pending, n)
    /\ frames' = Append(frames, Last(frames'))
    /\ Last(frames').step = i
    /\ Last(frames').field = n
    /\ steps'[i].evals[n] = steps[i].evals[n] + 1
    /\ steps'[i].values = steps[i].values

\* The step ends the innermost evaluate(), which runs on the Resolver of the
\* build call i, and pops its field: the value is cached when it returned,
\* nothing is cached when it raised
Pops(i) ==
    /\ steps[i].pending # <<>>
    /\ frames # <<>>
    /\ Last(frames).step = i
    /\ Last(frames).field = Last(steps[i].pending)
    /\ steps'[i].pending = Front(steps[i].pending)
    /\ Len(frames') = Len(frames) - 1
    /\ IF ctl.mode = "raise"
       THEN /\ steps'[i].values = steps[i].values
            /\ steps'[i].fails[Last(frames).field] = steps[i].fails[Last(frames).field] + 1
       ELSE /\ Last(frames).field \in DOMAIN steps'[i].values
            /\ DOMAIN steps'[i].values = DOMAIN steps[i].values \cup {Last(frames).field}
            /\ steps'[i].fails = steps[i].fails

\* C27: the pending stack of a Resolver holds no duplicate and no cached
\* name, and is the stack of the evaluate() calls in progress: a step of a
\* build call either leaves it alone, pushes the field whose evaluate()
\* starts, or pops exactly the field of the evaluate() that returns or
\* raises. It is empty when no evaluate() runs on the Resolver, so after
\* every read made by the loop of resolve and after the build call. A field
\* whose evaluate() raised is not cached and is evaluated again when read.
C27_PendingStack ==
    /\ []PendingIsTheCallStack
    /\ [][\A i \in DOMAIN steps :
             SameCall(i) =>
                \/ /\ steps'[i].pending = steps[i].pending
                   /\ steps'[i].fails = steps[i].fails
                \/ \E n \in DOMAIN steps[i].pre.decl : Pushes(i, n)
                \/ Pops(i)]_vars

\* C27 witness: the evaluate() of a field raised and the error was caught by
\* its reader; the field is read again by the loop of resolve and its second
\* evaluate() is in progress
C27_Witness ==
    /\ Running
    /\ frames # <<>>
    /\ Last(frames).pulled
    /\ \E st \in {steps[Last(frames).step]} :
          /\ st.pending = <<Last(frames).field>>
          /\ st.fails[Last(frames).field] = 1
          /\ st.evals[Last(frames).field] = 2
          /\ st.values # EmptyDict

====
